---------------------------- MODULE Spec2Model ----------------------------
(***************************************************************************)
(* Beacon Cinema -> Google Calendar synchronisation.                       *)
(*                                                                         *)
(* Several state machines share this module; the main ones:                *)
(*   Spec      one updateGCal pass (parse schedule, delete upcoming        *)
(*             events, insert the new ones), for both variants of          *)
(*             updateGCal kept in the repository: the CSV variant          *)
(*             (src/updateGCal.js) and the Google Sheets variant           *)
(*             (src/public/app.js, lines 680-1011);                        *)
(*   SpecNav   one call of utils.navigateWithRetry;                        *)
(*   SpecDedup one call of utils.deduplicateRows;                          *)
(*   SpecSchedule, SpecRuntimes, SpecFull  beaconSchedule.js,              *)
(*             findRuntimes, and fullUpdate.js running its steps;          *)
(*   SpecTwice two updateGCal passes in a row.                             *)
(*                                                                         *)
(* Time is counted in minutes.  An instant is a number of minutes since    *)
(* 00:00 UTC of day 0; a wall-clock date-time is Date * Day + Time.        *)
(* Strings that the code inspects character by character (titles) are      *)
(* sequences of one-character strings.                                     *)
(***************************************************************************)
EXTENDS Integers, Sequences, FiniteSets, TLC

VARIABLES
    \* ---- updateGCal ----
    variant,              \* "csv" (src/updateGCal.js) or "sheets" (src/public/app.js)
    machineOffset,        \* UTC offset, in minutes, of the machine running the script
    clock,                \* the current instant (what new Date() returns)
    schedule,             \* rows of schedule.csv / sheet 'schedule'
    runtimes,             \* rows of runtimes.csv / sheet 'runtimes'
    seriesIndex,          \* rows of seriesIndex.csv / sheet 'seriesIndex'
    calendar,             \* the entries of the Google Calendar
    nextId,               \* id the calendar gives to the next inserted entry
    pc,                   \* position of connectToCalendar
    today,                \* connectToCalendar's `today`
    eventsToCreate,
    uniqueEventsToCreate,
    timeMin,              \* deleteUpcomingEvents' `today`, sent as timeMin
    events,               \* deleteUpcomingEvents' `events` (the listing)
    delIdx,               \* next index of `events` to delete
    insIdx,               \* next index of uniqueEventsToCreate to insert
    successCount,
    failureCount,
    summaryLogged,        \* a summary line with counts was logged
    calls,                \* history: calendar API calls issued so far
    \* ---- navigateWithRetry ----
    maxRetries,
    attempt,
    navStatus,            \* "idle", "running", "true", "false", "thrown"
    navThrown,            \* the error thrown to the caller
    gotoLog,              \* history: outcome of every page.goto call
    \* ---- deduplicateRows ----
    dedupRows,
    dedupKeyFn,
    dedupResult,
    dedupStatus,          \* "idle", "called", "returned"
    \* ---- beaconSchedule ----
    listing,              \* the event blocks of the calendar page
    seriesSheet,          \* lines of sheet 'series'
    scheduleSheet,        \* lines of sheet 'schedule'
    scheduleBefore,       \* history: sheet 'schedule' when the run started
    bsPc,                 \* "idle", "start", "nav", "done", "navFailed", "failed"
    \* ---- fullUpdate ----
    fuPc,                 \* "idle", "series", "schedule", "scheduleRunning",
                          \* "runtimes", "gcal", "gcalRunning", "complete",
                          \* "stopped" (process.exit(1))
    started,              \* history: the scripts runScript has started
    exitCodes,            \* history: the exit codes of those that have ended
    \* ---- two updateGCal processes ----
    other,                \* the local variables of the process that is waiting
    running,              \* 1 or 2: the process whose local variables are
                          \* pc, today, ..., summaryLogged above
    callers,              \* history: the process that issued calls[i]
    \* ---- findRuntimes ----
    runtimesSheet,        \* lines of sheet 'runtimes'
    runtimesBefore,       \* history: sheet 'runtimes' when the run started
    frPc,                 \* "idle", "start", "loop", "write", "done", "failed"
    urls,                 \* the Map urls, as its [url, title] entries in order
    results,
    runtimesAdded,        \* the count logged as "Total runtimes processed"
    frLog,                \* history: what became of every URL visited
    \* ---- normalizeTitle ----
    normTitle,
    normResult,
    normStatus,           \* "idle", "called", "returned"
    \* ---- updateGCal run twice ----
    pass,                 \* 1 or 2: the run of updateGCal under way
    calendarOnce          \* history: the calendar when the first run ended

gcalVars == <<variant, machineOffset, clock, schedule, runtimes, seriesIndex,
              calendar, nextId, pc, today, eventsToCreate, uniqueEventsToCreate,
              timeMin, events, delIdx, insIdx, successCount, failureCount,
              summaryLogged, calls>>
navVars == <<maxRetries, attempt, navStatus, navThrown, gotoLog>>
dedupVars == <<dedupRows, dedupKeyFn, dedupResult, dedupStatus>>
normVars == <<normTitle, normResult, normStatus>>
twiceVars == <<pass, calendarOnce>>
\* what the scripts themselves never touch
asideVars == <<dedupVars, normVars, twiceVars>>
bsVars == <<listing, seriesSheet, scheduleSheet, scheduleBefore, bsPc>>
\* what lies outside updateGCal, navigateWithRetry and deduplicateRows
fuVars == <<fuPc, started, exitCodes>>
concVars == <<other, running, callers>>
frVars == <<runtimesSheet, runtimesBefore, frPc, urls, results,
            runtimesAdded, frLog>>
restVars == <<bsVars, fuVars, concVars, frVars>>
vars == <<gcalVars, navVars, asideVars, restVars>>

---------------------------------------------------------------------------
(* Bounds of the model *)

\* rows of the schedule table
MaxRows == 2
\* entries on the calendar before the pass
MaxPreExisting == 2
\* calendar API calls that may fail during one pass
MaxFailures == 1
\* minutes that may pass between connectToCalendar's and
\* deleteUpcomingEvents' reading of the clock
ListDelay == 5
\* largest maxRetries option tried
MaxRetriesBound == 5
\* rows handed to deduplicateRows
MaxDedupLen == 3
\* event blocks (with a time element) on the calendar page
MaxListings == 2
\* lines of sheet 'schedule' that findRuntimes reads
MaxUrls == 2
\* longest title given to normalizeTitle on its own
MaxTitleLen == 3

---------------------------------------------------------------------------
(* Strings *)

LowerLetters ==
    <<"a", "b", "c", "d", "e", "f", "g", "h", "i", "j", "k", "l", "m",
      "n", "o", "p", "q", "r", "s", "t", "u", "v", "w", "x", "y", "z">>
UpperLetters ==
    <<"A", "B", "C", "D", "E", "F", "G", "H", "I", "J", "K", "L", "M",
      "N", "O", "P", "Q", "R", "S", "T", "U", "V", "W", "X", "Y", "Z">>

\* place of a character in an alphabet, 0 when it is not in it
LetterIndex(c, alphabet) ==
    IF \E i \in 1..Len(alphabet) : alphabet[i] = c
    THEN CHOOSE i \in 1..Len(alphabet) : alphabet[i] = c
    ELSE 0

\* String.prototype.toUpperCase / toLowerCase on one character
ToUpper(c) ==
    LET i == LetterIndex(c, LowerLetters)
    IN  IF i = 0 THEN c ELSE UpperLetters[i]
ToLower(c) ==
    LET i == LetterIndex(c, UpperLetters)
    IN  IF i = 0 THEN c ELSE LowerLetters[i]

\* char.match(/[a-zA-Z]/)
IsAlpha(c) == LetterIndex(c, LowerLetters) # 0 \/ LetterIndex(c, UpperLetters) # 0


\* str.replace(/^"|"$/g, '')
StripQuotes(s) ==
    LET a == IF Len(s) > 0 /\ s[1] = "\"" THEN SubSeq(s, 2, Len(s)) ELSE s
    IN  IF Len(a) > 0 /\ a[Len(a)] = "\"" THEN SubSeq(a, 1, Len(a) - 1) ELSE a

\* String.prototype.trim
RECURSIVE TrimLeft(_)
TrimLeft(s) ==
    IF Len(s) > 0 /\ s[1] = " " THEN TrimLeft(Tail(s)) ELSE s
RECURSIVE TrimRight(_)
TrimRight(s) ==
    IF Len(s) > 0 /\ s[Len(s)] = " " THEN TrimRight(SubSeq(s, 1, Len(s) - 1)) ELSE s
Trim(s) == TrimRight(TrimLeft(s))

\* formatString: strip the quotes, then per space-separated word upper-case
\* the first letter and lower-case what follows it.
RECURSIVE TitleCase(_, _)
TitleCase(s, seenAlpha) ==
    IF s = <<>> THEN <<>>
    ELSE LET c == Head(s) IN
         IF c = " " THEN <<c>> \o TitleCase(Tail(s), FALSE)
         ELSE IF seenAlpha THEN <<ToLower(c)>> \o TitleCase(Tail(s), TRUE)
         ELSE IF IsAlpha(c) THEN <<ToUpper(c)>> \o TitleCase(Tail(s), TRUE)
         ELSE <<c>> \o TitleCase(Tail(s), FALSE)
formatString(str) == TitleCase(StripQuotes(str), FALSE)

\* String.prototype.toLowerCase
LowerCase(s) == [i \in 1..Len(s) |-> ToLower(s[i])]

\* title => title.replace(/^"|"$/g, '').trim().toLowerCase()
normalizeTitle(title) == LowerCase(Trim(StripQuotes(title)))

\* the text of a string literal of the source, character by character
RentTheBeacon ==
    <<"R", "E", "N", "T", " ", "T", "H", "E", " ",
      "B", "E", "A", "C", "O", "N">>

---------------------------------------------------------------------------
(* Time *)

Day == 24 * 60

\* America/Los_Angeles (daylight time), the default TIME_ZONE
VenueOffset == -420

\* new Date().toISOString().split('T')[0]: the UTC calendar date of an instant
UTCDate(instant) == instant \div Day

\* new Date(`${Date}T${Time}`): a date-time without offset is read in the
\* machine's local time
ParseLocal(date, time, offset) == date * Day + time - offset

---------------------------------------------------------------------------
(* Tables and rows *)

\* A runtime text is  pre ++ digits(num) ++ blanks ++ unit ; num = -1 when the
\* text holds no number.  NoRuntime is the empty string (and undefined).
NoRuntime == [pre |-> "", num |-> -1, unit |-> ""]

\* unit.toLowerCase(), for the /i flag of the runtime pattern
LowerWord(w) ==
    CASE w = "MINUTES" -> "minutes" [] w = "Minutes" -> "minutes" [] OTHER -> w

\* runtimeValue.match(/^(\d+)\s*minutes$/i)
RuntimeMatches(rt) ==
    rt.pre = "" /\ rt.num >= 0 /\ LowerWord(rt.unit) = "minutes"

\* A Date cell: form "YYYY-MM-DD" with its day number, "" (empty cell), or
\* "other" (text that /^\d{4}-\d{2}-\d{2}$/ rejects and new Date cannot
\* read); for such text `day` is its place in string order among the dates,
\* which is all that `row.Date < today` looks at.
\* A Time cell: form "HH:MM" with its minute of the day, "" (empty cell) or
\* "other" (text that /^\d{2}:\d{2}$/ rejects).
DateCell(d) == [form |-> "YYYY-MM-DD", day |-> d]
TimeCell(m) == [form |-> "HH:MM", min |-> m]
EmptyDate == [form |-> "", day |-> 0]
EmptyTime == [form |-> "", min |-> 0]
OtherTime == [form |-> "other", min |-> 0]
\* "1/5/2026" sorts before every date of this century, "TBD" after
OtherDateLow == [form |-> "other", day |-> -1]
OtherDateHigh == [form |-> "other", day |-> 99999]

\* runtimesMap: Title.trim() -> Runtime.trim(), a later row replacing an
\* earlier one with the same key (Map.set)
RuntimesMap(rows) ==
    LET valid == {i \in 1..Len(rows) :
                     rows[i].Title # <<>> /\ rows[i].Runtime # NoRuntime}
        keys == {Trim(rows[i].Title) : i \in valid}
        last(k) == CHOOSE i \in valid :
                      /\ Trim(rows[i].Title) = k
                      /\ \A j \in valid : Trim(rows[j].Title) = k => j <= i
    IN  [k \in keys |-> rows[last(k)].Runtime]

\* seriesMap: seriesTag.trim() -> seriesName.trim()
SeriesMap(rows) ==
    LET valid == {i \in 1..Len(rows) :
                     rows[i].seriesTag # <<>> /\ rows[i].seriesName # <<>>}
        keys == {Trim(rows[i].seriesTag) : i \in valid}
        last(k) == CHOOSE i \in valid :
                      /\ Trim(rows[i].seriesTag) = k
                      /\ \A j \in valid : Trim(rows[j].seriesTag) = k => j <= i
    IN  [k \in keys |-> Trim(rows[last(k)].seriesName)]

\* runtimesMap.get(row.Title) || runtimesMap.get(row.Title.trim())
RuntimeValue(rmap, title) ==
    LET get(k) == IF k \in DOMAIN rmap THEN rmap[k] ELSE NoRuntime
    IN  IF get(title) # NoRuntime THEN get(title) ELSE get(Trim(title))

\* row.SeriesTag && seriesMap.has(row.SeriesTag)
\*     ? formatString(seriesMap.get(row.SeriesTag)) : ''
FormattedSeriesName(smap, tag) ==
    IF tag # <<>> /\ tag \in DOMAIN smap THEN formatString(smap[tag]) ELSE <<>>

---------------------------------------------------------------------------
(* Building the events *)

TIME_ZONE == "America/Los_Angeles"

\* minutes between start and end: the runtime plus 15, or two hours
DurationMinutes(runtimeValue) ==
    IF runtimeValue # NoRuntime /\ RuntimeMatches(runtimeValue)
    THEN runtimeValue.num + 15
    ELSE 2 * 60

\* A dateTime string: with zulu, t is an instant written in UTC ("...Z");
\* without, t is a wall-clock date-time with no offset.
\* CSV variant: startDateTime.toISOString() of new Date(`${Date}T${Time}`)
CsvStart(row, offset) ==
    [zulu |-> TRUE, t |-> ParseLocal(row.Date.day, row.Time.min, offset)]
CsvEnd(row, offset, runtimeValue) ==
    [zulu |-> TRUE,
     t |-> ParseLocal(row.Date.day, row.Time.min, offset)
               + DurationMinutes(runtimeValue)]

\* Sheets variant: `${row.Date}T${row.Time}:00`
SheetsStart(row) ==
    [zulu |-> FALSE, t |-> row.Date.day * Day + row.Time.min]
\* Sheets variant: `${row.Date}T${hours}:${minutes}:00` with the hours and
\* minutes of tempEnd on the machine's clock
SheetsEnd(row, offset, runtimeValue) ==
    LET tempStart == ParseLocal(row.Date.day, row.Time.min, offset)
        tempEnd == tempStart + DurationMinutes(runtimeValue)
        minuteOfDay == (tempEnd + offset) % Day
    IN  [zulu |-> FALSE, t |-> row.Date.day * Day + minuteOfDay]

BuildEvent(v, row, offset, rmap, smap) ==
    LET runtimeValue == RuntimeValue(rmap, row.Title) IN
    [summary |-> formatString(row.Title),
     start |-> [dateTime |-> IF v = "csv" THEN CsvStart(row, offset)
                             ELSE SheetsStart(row),
                timeZone |-> TIME_ZONE],
     end |-> [dateTime |-> IF v = "csv" THEN CsvEnd(row, offset, runtimeValue)
                           ELSE SheetsEnd(row, offset, runtimeValue),
              timeZone |-> TIME_ZONE],
     description |-> [runtime |-> runtimeValue,
                      series |-> FormattedSeriesName(smap, row.SeriesTag),
                      url |-> row.URL]]

\* row.Date < today
IsPast(row, todayDate) == row.Date.day < todayDate

\* What the per-row handler does with one schedule row
RowOutcome(v, row, todayDate, offset, rmap, smap) ==
    IF row.Date.form = "" \/ row.Time.form = "" \/ row.Title = <<>>
    THEN [kind |-> "missing"]
    ELSE IF IsPast(row, todayDate)
    THEN [kind |-> "past"]
    ELSE IF v = "sheets" /\ row.Date.form # "YYYY-MM-DD"
    THEN [kind |-> "badDate"]
    ELSE IF row.Time.form # "HH:MM"
    THEN [kind |-> "badTime"]
    ELSE IF row.Date.form # "YYYY-MM-DD"
    \* CSV variant only (the Sheets variant has returned "badDate"):
    \* startDateTime is an Invalid Date and toISOString() throws RangeError
    THEN [kind |-> "throws"]
    ELSE [kind |-> "event", event |-> BuildEvent(v, row, offset, rmap, smap)]

\* the level of the line logged for a row that is not made an event
LogLevel(kind) ==
    CASE kind = "missing" -> "warn"
      [] kind = "past" -> "info"
      [] kind \in {"badDate", "badTime"} -> "error"
      [] OTHER -> "none"

\* index of the first row whose handler throws, 0 when none does
FirstThrow(v, rows, todayDate, offset, rmap, smap) ==
    LET T == {i \in 1..Len(rows) :
                 RowOutcome(v, rows[i], todayDate, offset, rmap, smap).kind
                     = "throws"}
    IN  IF T = {} THEN 0 ELSE CHOOSE i \in T : \A j \in T : i <= j

\* eventsToCreate after every row was handled, in row order (up to the row
\* whose handler throws, if one does)
ParseSchedule(v, rows, todayDate, offset, rmap, smap) ==
    LET ft == FirstThrow(v, rows, todayDate, offset, rmap, smap)
        n == IF ft = 0 THEN Len(rows) ELSE ft - 1
        out[i \in 0..n] ==
            IF i = 0 THEN <<>>
            ELSE LET o == RowOutcome(v, rows[i], todayDate, offset, rmap, smap)
                 IN  IF o.kind = "event" THEN Append(out[i - 1], o.event)
                     ELSE out[i - 1]
    IN  out[n]

---------------------------------------------------------------------------
(* deduplicateRows *)

\* a bug: the key is never added to `seen`
DedupStepNoAdd(acc, row, key) ==
    IF key \notin acc.seen
    THEN [seen |-> acc.seen, result |-> Append(acc.result, row)]
    ELSE acc

\* one turn of the loop: keep the row when its key was not seen before
DedupStep(acc, row, key) ==
    IF key \notin acc.seen
    THEN [seen |-> acc.seen \cup {key}, result |-> Append(acc.result, row)]
    ELSE acc

\* keyFn is the key function, given as a function on the rows
deduplicateRows(rows, keyFn) ==
    LET loop[i \in 0..Len(rows)] ==
            IF i = 0 THEN [seen |-> {}, result |-> <<>>]
            ELSE DedupStep(loop[i - 1], rows[i], keyFn[rows[i]])
    IN  loop[Len(rows)].result

\* event => `${event.summary}|${event.start.dateTime}`
EventKey(event) == <<event.summary, event.start.dateTime>>

---------------------------------------------------------------------------
(* The Google Calendar *)

\* The instant a dateTime denotes for the calendar: a "...Z" string is an
\* instant; a string without offset is wall-clock time in the timeZone sent
\* with it (TIME_ZONE).
InstantOf(dateTime) ==
    IF dateTime.zulu THEN dateTime.t ELSE dateTime.t - VenueOffset

\* the entry the calendar stores for an inserted event resource
EntryOf(id, event) ==
    [id |-> id, summary |-> event.summary,
     start |-> InstantOf(event.start.dateTime),
     end |-> InstantOf(event.end.dateTime)]

\* orderBy: 'startTime'
RECURSIVE SortByStart(_)
SortByStart(S) ==
    IF S = {} THEN <<>>
    ELSE LET e == CHOOSE x \in S :
                     \A y \in S : x.start < y.start
                                  \/ (x.start = y.start /\ x.id <= y.id)
         IN  <<e>> \o SortByStart(S \ {e})

\* a bug: timeMin taken as a lower bound of the start time, so that a
\* screening under way is not listed
ListEventsByStart(cal, tMin) == SortByStart({e \in cal : e.start >= tMin})

\* a bug: the listing without timeMin, every entry of the calendar
ListEventsAll(cal, tMin) == SortByStart(cal)

\* calendar.events.list({timeMin, singleEvents: true, orderBy: 'startTime'}):
\* timeMin is the (exclusive) lower bound of an entry's end time
ListEvents(cal, tMin) == SortByStart({e \in cal : e.end > tMin})

\* deleteUpcomingEvents' `today`, sent as timeMin
\*   CSV:    new Date().toISOString()
\*   Sheets: new Date().toISOString().split('T')[0] + 'T00:00:00.000Z'
TimeMinOf(v, instant) ==
    IF v = "csv" THEN instant ELSE UTCDate(instant) * Day

---------------------------------------------------------------------------
(* Google Sheets tables: a sheet is a sequence of lines, a line a sequence  *)
(* of cells, the first line the header.                                     *)

\* A cell holds a string: free text (s, character by character), a date
\* YYYY-MM-DD (n its day), a time HH:MM (n its minute of the day) or an ISO
\* timestamp (n its instant).
Text(s) == [kind |-> "text", s |-> s, n |-> 0]
DateText(d) == [kind |-> "date", s |-> <<>>, n |-> d]
TimeText(m) == [kind |-> "time", s |-> <<>>, n |-> m]
StampText(t) == [kind |-> "stamp", s |-> <<>>, n |-> t]

\* the empty string; also stands for undefined, a cell that is not there
NoCell == Text(<<>>)

\* undefined written into a line: null in the request, a cell the Sheets
\* API skips
Undefined == [kind |-> "undefined", s |-> <<>>, n |-> 0]

\* the truth value of a cell (fields[0] && fields[1], event.title && ...)
Truthy(c) == c \notin {NoCell, Undefined}

\* the column names
HTitle == Text(<<"T", "i", "t", "l", "e">>)
HDate == Text(<<"D", "a", "t", "e">>)
HTime == Text(<<"T", "i", "m", "e">>)
HURL == Text(<<"U", "R", "L">>)
HSeriesTag == Text(<<"S", "e", "r", "i", "e", "s", "T", "a", "g">>)
HDateRecorded ==
    Text(<<"D", "a", "t", "e", "R", "e", "c", "o", "r", "d", "e", "d">>)

\* header.indexOf(name), counted from 1; 0 stands for -1
IndexOf(header, name) ==
    IF \E i \in 1..Len(header) : header[i] = name
    THEN CHOOSE i \in 1..Len(header) :
             header[i] = name /\ \A j \in 1..(i - 1) : header[j] # name
    ELSE 0

\* line[i], undefined when there is no such cell
CellAt(line, i) == IF i \in 1..Len(line) THEN line[i] ELSE NoCell

\* normalizeTitle applied to a cell: only text has quotes, blanks or capitals
\* to lose
NormalizeCell(c) ==
    IF c.kind = "text" THEN Text(normalizeTitle(c.s)) ELSE c

\* cell < today, a comparison of strings, today being the date todayDate of
\* this century: a date by its day, a timestamp by its date, a time HH:MM
\* when it is before 20:00, text by its first character (text that starts
\* with the digit 2 is not in the model)
BeforeToday(c, todayDate) ==
    CASE c.kind = "date" -> c.n < todayDate
      [] c.kind = "stamp" -> UTCDate(c.n) < todayDate
      [] c.kind = "time" -> c.n < 20 * 60
      [] OTHER -> c.s = <<>> \/ c.s[1] \in {" ", "\"", "-", "/", "0", "1"}

\* spreadsheets.values.update on range A1: the cells given are written, the
\* cells of the sheet beyond them stay as they are
OverlayLine(oldLine, newLine) ==
    [j \in 1..(IF Len(newLine) > Len(oldLine) THEN Len(newLine)
               ELSE Len(oldLine)) |->
        IF j <= Len(newLine) /\ newLine[j] # Undefined THEN newLine[j]
        ELSE CellAt(oldLine, j)]
setSheetRows(sheet, rows) ==
    [i \in 1..(IF Len(rows) > Len(sheet) THEN Len(rows) ELSE Len(sheet)) |->
        IF i > Len(rows) THEN sheet[i]
        ELSE OverlayLine(IF i > Len(sheet) THEN <<>> ELSE sheet[i], rows[i])]

---------------------------------------------------------------------------
(* beaconSchedule (Google Sheets variant): from the scraped listing to the  *)
(* 'schedule' sheet                                                         *)

\* Map.get(key) || fallback : a value that is absent or empty is falsy
MapGet(m, key) == IF key \in DOMAIN m THEN m[key] ELSE NoCell

\* a bug: a Map that keeps the first value set for a key
MapOfPairsFirst(pairs) ==
    LET keys == {pairs[i][1] : i \in 1..Len(pairs)}
        first(k) == CHOOSE i \in 1..Len(pairs) :
                       /\ pairs[i][1] = k
                       /\ \A j \in 1..Len(pairs) : pairs[j][1] = k => i <= j
    IN  [k \in keys |-> pairs[first(k)][2]]

\* new Map(pairs): for a key set more than once the last value stays
MapOfPairs(pairs) ==
    LET keys == {pairs[i][1] : i \in 1..Len(pairs)}
        last(k) == CHOOSE i \in 1..Len(pairs) :
                      /\ pairs[i][1] = k
                      /\ \A j \in 1..Len(pairs) : pairs[j][1] = k => j <= i
    IN  [k \in keys |-> pairs[last(k)][2]]

\* An event block of the page with one of its time elements: the text of the
\* block, the link around it and the time element's content attribute
\* (NoStart when the attribute is missing).
NoStart == [day |-> -1, min |-> -1]

\* [...new Set(titles)] of the trimmed texts of the event blocks, in page
\* order
PageTitles(page) ==
    LET all == [i \in 1..Len(page) |-> Text(Trim(page[i].rawTitle))]
    IN  deduplicateRows(all, [t \in {all[i] : i \in 1..Len(all)} |-> t])

\* scheduleList: one entry per time element that has a start date, the
\* content split at 'T' into date and time.slice(0, 5)
Scrape(page) ==
    LET dated == SelectSeq(page, LAMBDA b : b.startDate # NoStart)
    IN  [i \in 1..Len(dated) |->
            [title |-> Text(Trim(dated[i].rawTitle)),
             date |-> DateText(dated[i].startDate.day),
             time |-> TimeText(dated[i].startDate.min),
             url |-> dated[i].url]]

\* titleMap: normalizeTitle(title) -> title.trim(), without the key of
\* 'RENT THE BEACON'
TitleMapOf(titles) ==
    LET m == MapOfPairs([i \in 1..Len(titles) |->
                            <<NormalizeCell(titles[i]), Text(Trim(titles[i].s))>>])
    IN  [k \in DOMAIN m \ {NormalizeCell(Text(RentTheBeacon))} |-> m[k]]

\* seriesMap: the lines of sheet 'series' as getSheetRows returns them (the
\* header line among them), each destructured as [title, seriesTag]
SeriesByTitle(lines) ==
    MapOfPairs([i \in 1..Len(lines) |->
                   <<NormalizeCell(CellAt(lines[i], 1)), CellAt(lines[i], 2)>>])

\* the lines written first: the header and the rows of the sheet dated
\* before today, the row's first two cells taken as title and date
FilteredRows(sheet, todayDate) ==
    LET header == IF Len(sheet) > 0 THEN sheet[1] ELSE <<>>
        valid == IF Len(sheet) > 1
                 THEN SelectSeq(Tail(sheet),
                          LAMBDA f : Truthy(CellAt(f, 1)) /\ Truthy(CellAt(f, 2)))
                 ELSE <<>>
    IN  <<header>> \o
        SelectSeq(valid, LAMBDA f : BeforeToday(CellAt(f, 2), todayDate))

\* scheduleWithSeriesTag
ScheduleWithSeriesTag(scraped, seriesMap, stamp) ==
    LET kept == SelectSeq(scraped,
                    LAMBDA ev : /\ ev.title # Text(RentTheBeacon)
                                /\ Truthy(ev.title) /\ Truthy(ev.date)
                                /\ Truthy(ev.time))
    IN  [i \in 1..Len(kept) |->
            [title |-> kept[i].title, date |-> kept[i].date,
             time |-> kept[i].time, url |-> kept[i].url,
             seriesTag |-> MapGet(seriesMap, NormalizeCell(kept[i].title)),
             dateRecorded |-> StampText(stamp)]]

\* uniqueEvents: by `${event.title}|${event.date}|${event.time}`
UniqueEvents(evs) ==
    deduplicateRows(evs,
        [e \in {evs[i] : i \in 1..Len(evs)} |-> <<e.title, e.date, e.time>>])

ScheduleHeader == <<HTitle, HDate, HTime, HURL, HSeriesTag, HDateRecorded>>

\* sheetRows: the fixed header and one line per uniq event
SheetRowsOf(uniq, titleMap) ==
    <<ScheduleHeader>> \o
    [i \in 1..Len(uniq) |->
        LET shown == MapGet(titleMap, NormalizeCell(uniq[i].title))
        IN  <<IF Truthy(shown) THEN shown ELSE uniq[i].title,
              uniq[i].date, uniq[i].time, uniq[i].url,
              uniq[i].seriesTag, uniq[i].dateRecorded>>]

\* sheet 'schedule' once beaconSchedule has loaded the page: the first
\* setSheetRows, then (when there are uniq events) the second
WrittenSchedule(sheet, seriesLines, page, now) ==
    LET first == setSheetRows(sheet, FilteredRows(sheet, UTCDate(now)))
        uniq == UniqueEvents(
                      ScheduleWithSeriesTag(Scrape(page), SeriesByTitle(seriesLines), now))
    IN  IF Len(uniq) = 0 THEN first
        ELSE setSheetRows(first, SheetRowsOf(uniq, TitleMapOf(PageTitles(page))))

\* A cell read as the Title, SeriesTag, URL, Date or Time of a row
TitleOfCell(c) == IF c.kind = "text" THEN c.s ELSE <<"2">>
UrlOfCell(c) == IF c.s = <<>> THEN "" ELSE c.s[1]
DateOfCell(c) ==
    CASE c.kind = "date" -> DateCell(c.n)
      [] c.kind = "stamp" -> [form |-> "other", day |-> UTCDate(c.n)]
      [] c = NoCell -> EmptyDate
      [] OTHER -> IF BeforeToday(c, 0) THEN OtherDateLow ELSE OtherDateHigh
TimeOfCell(c) ==
    CASE c.kind = "time" -> TimeCell(c.n)
      [] c = NoCell -> EmptyTime
      [] OTHER -> OtherTime

\* updateGCal's reading of sheet 'schedule': the lines after the header,
\* every field found through scheduleHeader.indexOf(name)
RowsOfSheet(sheet) ==
    LET header == IF Len(sheet) > 0 THEN sheet[1] ELSE <<>>
        at(line, name) == CellAt(line, IndexOf(header, name))
    IN  [i \in 1..(Len(sheet) - 1) |->
            [Title |-> TitleOfCell(at(sheet[i + 1], HTitle)),
             Date |-> DateOfCell(at(sheet[i + 1], HDate)),
             Time |-> TimeOfCell(at(sheet[i + 1], HTime)),
             URL |-> UrlOfCell(at(sheet[i + 1], HURL)),
             SeriesTag |-> TitleOfCell(at(sheet[i + 1], HSeriesTag))]]

---------------------------------------------------------------------------
(* Inputs of a pass *)

R90 == [pre |-> "", num |-> 90, unit |-> "minutes"]
R100Upper == [pre |-> "", num |-> 100, unit |-> "MINUTES"]
RApprox == [pre |-> "approx. ", num |-> 90, unit |-> "minutes"]
RHours == [pre |-> "", num |-> 2, unit |-> "hours"]

TitleAB == <<"a", "B">>
TitleAb == <<"A", "b">>

ScheduleDates == 0..2

\* 00:30 and 23:00
EarlyTime == TimeCell(30)
LateTime == TimeCell(23 * 60)

\* "aB" late on every date and early on days 1 and 2; "Ab" (same display
\* title) late on day 2
GoodRows ==
    {[Title |-> TitleAB, SeriesTag |-> <<"t">>,
      URL |-> "https://thebeacon.film/x", Date |-> DateCell(d), Time |-> LateTime] :
        d \in ScheduleDates}
    \cup
    {[Title |-> TitleAB, SeriesTag |-> <<"t">>,
      URL |-> "https://thebeacon.film/x", Date |-> DateCell(d), Time |-> EarlyTime] :
        d \in 1..2}
    \cup
    {[Title |-> TitleAb, SeriesTag |-> <<>>, URL |-> "",
      Date |-> DateCell(2), Time |-> LateTime]}

BadRows ==
    {[Title |-> TitleAB, SeriesTag |-> <<>>, URL |-> "",
      Date |-> DateCell(2), Time |-> t] : t \in {EmptyTime, OtherTime}}

RowPool == GoodRows \cup BadRows

SeqsUpTo(S, n) == UNION {[1..k -> S] : k \in 0..n}

RuntimeTables ==
    {<<[Title |-> TitleAB, Runtime |-> R90]>>,
     <<[Title |-> TitleAB, Runtime |-> RApprox],
       [Title |-> TitleAB \o <<" ">>, Runtime |-> R100Upper],
       [Title |-> TitleAb, Runtime |-> RHours]>>}

SeriesIndexTables ==
    {<<[seriesTag |-> <<"t">>, seriesName |-> <<"b", "a", " ", "7", "a">>]>>}

\* entries another pass (or a person) left on the calendar:
\* day 1 02:00-04:00Z, day 3 10:00-12:00Z, day 3 20:00-22:00Z
PreExistingPool ==
    {[id |-> 1, summary |-> <<"e", "a", "r", "l", "y">>,
      start |-> Day + 2 * 60, end |-> Day + 4 * 60],
     [id |-> 2, summary |-> <<"n", "e", "x", "t">>,
      start |-> 3 * Day + 10 * 60, end |-> 3 * Day + 12 * 60],
     [id |-> 3, summary |-> <<"l", "a", "t", "e", "r">>,
      start |-> 3 * Day + 20 * 60, end |-> 3 * Day + 22 * 60]}

\* an empty calendar, and one with the entry of day 3 10:00-12:00Z
SmallCalendars == {{}, {e \in PreExistingPool : e.id = 2}}

\* ids of the entries the pass inserts start here
FirstNewId == Cardinality(PreExistingPool) + 1

\* instants at which a pass starts: day 1 10:00Z (03:00 at the venue),
\* day 2 01:00Z (18:00 of day 1 at the venue)
StartInstants == {Day + 10 * 60, 2 * Day + 60}

MachineOffsets == {0, VenueOffset}

---------------------------------------------------------------------------
(* updateGCal: connectToCalendar and deleteUpcomingEvents *)

Failures(log) == Cardinality({i \in 1..Len(log) : ~log[i].ok})

\* outcomes a calendar API call may have now
Outcomes == IF Failures(calls) < MaxFailures THEN BOOLEAN ELSE {TRUE}

GCalIdle ==
    /\ variant = "csv" /\ machineOffset = 0 /\ clock = 0
    /\ schedule = <<>> /\ runtimes = <<>> /\ seriesIndex = <<>>
    /\ calendar = {} /\ nextId = 0 /\ pc = "idle" /\ today = 0
    /\ eventsToCreate = <<>> /\ uniqueEventsToCreate = <<>>
    /\ timeMin = 0 /\ events = <<>> /\ delIdx = 0 /\ insIdx = 0
    /\ successCount = 0 /\ failureCount = 0 /\ summaryLogged = FALSE
    /\ calls = <<>>

NavIdle ==
    /\ maxRetries = 0 /\ attempt = 0 /\ navStatus = "idle"
    /\ navThrown = [ok |-> TRUE, isError |-> FALSE, message |-> ""]
    /\ gotoLog = <<>>

DedupIdle ==
    /\ dedupRows = <<>> /\ dedupKeyFn = "" /\ dedupResult = <<>>
    /\ dedupStatus = "idle"

NormIdle ==
    /\ normTitle = <<>> /\ normResult = <<>> /\ normStatus = "idle"

TwiceIdle == pass = 1 /\ calendarOnce = {}

AsideIdle == DedupIdle /\ NormIdle /\ TwiceIdle

BsIdle ==
    /\ listing = <<>> /\ seriesSheet = <<>> /\ scheduleSheet = <<>>
    /\ scheduleBefore = <<>> /\ bsPc = "idle"

FuIdle == fuPc = "idle" /\ started = <<>> /\ exitCodes = <<>>

\* no second process
NoRun ==
    [pc |-> "none", today |-> 0, eventsToCreate |-> <<>>,
     uniqueEventsToCreate |-> <<>>, timeMin |-> 0, events |-> <<>>,
     delIdx |-> 1, insIdx |-> 1, successCount |-> 0, failureCount |-> 0,
     summaryLogged |-> FALSE]

ConcIdle == other = NoRun /\ running = 1 /\ callers = <<>>

FrIdle ==
    /\ runtimesSheet = <<>> /\ runtimesBefore = <<>> /\ frPc = "idle"
    /\ urls = <<>> /\ results = <<>> /\ runtimesAdded = 0 /\ frLog = <<>>

RestIdle == BsIdle /\ FuIdle /\ ConcIdle /\ FrIdle

GCalInit ==
    /\ variant \in {"csv", "sheets"}
    /\ machineOffset \in MachineOffsets
    /\ clock \in StartInstants
    /\ schedule \in SeqsUpTo(RowPool, MaxRows)
    /\ runtimes \in RuntimeTables
    /\ seriesIndex \in SeriesIndexTables
    /\ calendar \in {c \in SUBSET PreExistingPool : Cardinality(c) <= MaxPreExisting}
    /\ nextId = FirstNewId
    /\ pc = "start"
    /\ today = 0
    /\ eventsToCreate = <<>>
    /\ uniqueEventsToCreate = <<>>
    /\ timeMin = 0
    /\ events = <<>>
    /\ delIdx = 1
    /\ insIdx = 1
    /\ successCount = 0
    /\ failureCount = 0
    /\ summaryLogged = FALSE
    /\ calls = <<>>

\* a bug: no early return, deleteUpcomingEvents is called whatever was built
AfterBuildNoGuard(built, uniq) == "list"

\* the two early returns before deleteUpcomingEvents: nothing to create
AfterBuild(built, uniq) ==
    IF Len(built) = 0 \/ Len(uniq) = 0 THEN "returned" ELSE "list"

\* connectToCalendar up to the call of deleteUpcomingEvents: read the tables,
\* build eventsToCreate, deduplicate; return early when nothing is to create.
\* An error thrown on the way (no credentials, schedule.csv missing, a table
\* that cannot be read) is caught by the catch block, which logs it and calls
\* process.exit(1).  An exception thrown by the row handler inside the stream
\* callback either reaches the uncaughtException handler, which logs
\* logger.summary(0, 0, 1) and exits with 1, or is turned into a stream
\* error that the catch block receives.
ReadAndBuild ==
    /\ pc = "start"
    /\ \E readOk \in BOOLEAN :
          LET rmap == RuntimesMap(runtimes)
              smap == SeriesMap(seriesIndex)
              ft == FirstThrow(variant, schedule, UTCDate(clock),
                               machineOffset, rmap, smap)
              built == ParseSchedule(variant, schedule, UTCDate(clock),
                                     machineOffset, rmap, smap)
              unique == deduplicateRows(built,
                            [e \in {built[i] : i \in 1..Len(built)} |-> EventKey(e)])
          IN  IF ~readOk
              THEN /\ pc' = "exit1"
                   /\ UNCHANGED <<today, eventsToCreate, uniqueEventsToCreate,
                                  summaryLogged>>
              ELSE IF ft # 0
              THEN /\ pc' = "exit1"
                   /\ today' = UTCDate(clock)
                   /\ eventsToCreate' = built
                   /\ summaryLogged' \in BOOLEAN
                   /\ UNCHANGED uniqueEventsToCreate
              ELSE /\ today' = UTCDate(clock)
                   /\ eventsToCreate' = built
                   /\ uniqueEventsToCreate' = unique
                   /\ pc' = AfterBuild(built, unique)
                   /\ UNCHANGED summaryLogged
    /\ UNCHANGED <<variant, machineOffset, clock, schedule, runtimes,
                   seriesIndex, calendar, nextId, timeMin, events, delIdx,
                   insIdx, successCount, failureCount, calls>>

\* a bug: deleteUpcomingEvents without its try/catch, so that a failed
\* listing reaches the catch of connectToCalendar, which exits with 1
AfterListPropagate(ok, n) ==
    IF ~ok THEN "exit1" ELSE IF n > 0 THEN "delete" ELSE "insert"

\* where connectToCalendar stands after the listing: the deletion loop when
\* entries were listed, else (nothing listed, or the listing failed and the
\* catch of deleteUpcomingEvents logged it) the insertion loop
AfterList(ok, n) == IF n > 0 THEN "delete" ELSE "insert"

\* deleteUpcomingEvents: read the clock again and list; a failed listing is
\* logged and deleteUpcomingEvents returns.
ListUpcoming ==
    /\ pc = "list"
    /\ \E d \in {0, ListDelay}, ok \in Outcomes :
          /\ clock' = clock + d
          /\ timeMin' = TimeMinOf(variant, clock')
          /\ events' = IF ok THEN ListEvents(calendar, timeMin') ELSE <<>>
          /\ calls' = Append(calls, [op |-> "list", timeMin |-> timeMin', ok |-> ok])
          /\ pc' = AfterList(ok, Len(events'))
    /\ UNCHANGED <<variant, machineOffset, schedule, runtimes, seriesIndex,
                   calendar, nextId, today, eventsToCreate,
                   uniqueEventsToCreate, delIdx, insIdx, successCount,
                   failureCount, summaryLogged>>

\* a bug: the try/catch around the loop instead of inside it, so that a failed
\* delete ends the loop
AfterDeleteAbortOnFailure(ok, idx, n) ==
    IF ~ok \/ idx + 1 > n THEN "insert" ELSE "delete"

\* where the deletion loop stands after the delete of events[idx]: the catch
\* is inside the loop, so a failed delete changes nothing
AfterDelete(ok, idx, n) == IF idx + 1 > n THEN "insert" ELSE "delete"

\* outcomes of calendar.events.delete: the delete of an entry that is no
\* longer there fails (410 Gone)
DeleteOutcomes(cal, id) ==
    IF \E e \in cal : e.id = id THEN Outcomes ELSE {FALSE}

\* one turn of the deletion loop; a failed delete is logged and the loop goes on
DeleteEvent ==
    /\ pc = "delete"
    /\ delIdx <= Len(events)
    /\ \E ok \in DeleteOutcomes(calendar, events[delIdx].id) :
          /\ calendar' = IF ok THEN {e \in calendar : e.id # events[delIdx].id}
                         ELSE calendar
          /\ calls' = Append(calls, [op |-> "delete", id |-> events[delIdx].id,
                                     ok |-> ok])
          /\ pc' = AfterDelete(ok, delIdx, Len(events))
    /\ delIdx' = delIdx + 1
    /\ UNCHANGED <<variant, machineOffset, clock, schedule, runtimes,
                   seriesIndex, nextId, today, eventsToCreate,
                   uniqueEventsToCreate, timeMin, events, insIdx,
                   successCount, failureCount, summaryLogged>>

\* a bug: deleteUpcomingEvents(calendar) called without await, so that the
\* insertion loop runs while the deletions are still under way
InsertGuardNoAwait ==
    pc \in {"delete", "insert"} /\ insIdx <= Len(uniqueEventsToCreate)

\* the insertion loop runs once `await deleteUpcomingEvents(calendar)` is over
InsertGuard == pc = "insert" /\ insIdx <= Len(uniqueEventsToCreate)

\* a bug: the try/catch around the insertion loop instead of inside it, so
\* that a failed insert ends the loop
AfterInsertAbortOnFailure(ok, idx, n) == IF ok THEN idx + 1 ELSE n + 1

\* the next index of the insertion loop after the insert of
\* uniqueEventsToCreate[idx]: the catch is inside the loop
AfterInsert(ok, idx, n) == idx + 1

\* one turn of the insertion loop
InsertEvent ==
    /\ InsertGuard
    /\ \E ok \in Outcomes :
          /\ insIdx' = AfterInsert(ok, insIdx, Len(uniqueEventsToCreate))
          /\ calendar' = IF ok
                         THEN calendar \cup
                              {EntryOf(nextId, uniqueEventsToCreate[insIdx])}
                         ELSE calendar
          /\ nextId' = IF ok THEN nextId + 1 ELSE nextId
          /\ successCount' = IF ok THEN successCount + 1 ELSE successCount
          /\ failureCount' = IF ok THEN failureCount ELSE failureCount + 1
          /\ calls' = Append(calls, [op |-> "insert",
                                     resource |-> uniqueEventsToCreate[insIdx],
                                     ok |-> ok])
    /\ UNCHANGED <<variant, machineOffset, clock, schedule, runtimes,
                   seriesIndex, pc, today, eventsToCreate,
                   uniqueEventsToCreate, timeMin, events, delIdx,
                   summaryLogged>>

\* after the last insert: the summary line, then process.exit(0)
Finish ==
    /\ pc = "insert"
    /\ insIdx > Len(uniqueEventsToCreate)
    /\ summaryLogged' = TRUE
    /\ pc' = "exit0"
    /\ UNCHANGED <<variant, machineOffset, clock, schedule, runtimes,
                   seriesIndex, calendar, nextId, today, eventsToCreate,
                   uniqueEventsToCreate, timeMin, events, delIdx, insIdx,
                   successCount, failureCount, calls>>

Init == GCalInit /\ NavIdle /\ AsideIdle /\ RestIdle

Next ==
    \/ ReadAndBuild /\ UNCHANGED <<navVars, asideVars, restVars>>
    \/ ListUpcoming /\ UNCHANGED <<navVars, asideVars, restVars>>
    \/ DeleteEvent /\ UNCHANGED <<navVars, asideVars, restVars>>
    \/ InsertEvent /\ UNCHANGED <<navVars, asideVars, restVars>>
    \/ Finish /\ UNCHANGED <<navVars, asideVars, restVars>>

Spec == Init /\ [][Next]_vars

---------------------------------------------------------------------------
(* updateGCal run twice in succession on the same tables *)

\* the second run starts once the first has ended without an error: a new
\* process, the same tables, the calendar as the first run left it
RunAgain ==
    /\ pass = 1
    /\ pc \in {"returned", "exit0"}
    /\ pass' = 2
    /\ calendarOnce' = calendar
    /\ pc' = "start"
    /\ today' = 0
    /\ eventsToCreate' = <<>>
    /\ uniqueEventsToCreate' = <<>>
    /\ timeMin' = 0
    /\ events' = <<>>
    /\ delIdx' = 1
    /\ insIdx' = 1
    /\ successCount' = 0
    /\ failureCount' = 0
    /\ summaryLogged' = FALSE
    /\ UNCHANGED <<variant, machineOffset, clock, schedule, runtimes,
                   seriesIndex, calendar, nextId, calls>>

InitTwice ==
    /\ variant \in {"csv", "sheets"}
    /\ machineOffset \in MachineOffsets
    /\ clock \in StartInstants
    /\ schedule \in SeqsUpTo(GoodRows, MaxRows)
    /\ runtimes \in {<<>>}
    /\ seriesIndex \in SeriesIndexTables
    /\ calendar \in SmallCalendars
    /\ nextId = FirstNewId
    /\ pc = "start"
    /\ today = 0
    /\ eventsToCreate = <<>>
    /\ uniqueEventsToCreate = <<>>
    /\ timeMin = 0
    /\ events = <<>>
    /\ delIdx = 1
    /\ insIdx = 1
    /\ successCount = 0
    /\ failureCount = 0
    /\ summaryLogged = FALSE
    /\ calls = <<>>
    /\ NavIdle /\ AsideIdle /\ RestIdle

NextTwice ==
    \/ ReadAndBuild /\ UNCHANGED <<navVars, asideVars, restVars>>
    \/ ListUpcoming /\ UNCHANGED <<navVars, asideVars, restVars>>
    \/ DeleteEvent /\ UNCHANGED <<navVars, asideVars, restVars>>
    \/ InsertEvent /\ UNCHANGED <<navVars, asideVars, restVars>>
    \/ Finish /\ UNCHANGED <<navVars, asideVars, restVars>>
    \/ RunAgain /\ UNCHANGED <<navVars, dedupVars, normVars, restVars>>

SpecTwice == InitTwice /\ [][NextTwice]_vars

---------------------------------------------------------------------------
(* Two updateGCal processes on one calendar: GET /api/run/updateGCal.js     *)
(* spawns a process per request                                             *)

\* the local variables of the process that is running
Locals ==
    [pc |-> pc, today |-> today, eventsToCreate |-> eventsToCreate,
     uniqueEventsToCreate |-> uniqueEventsToCreate, timeMin |-> timeMin,
     events |-> events, delIdx |-> delIdx, insIdx |-> insIdx,
     successCount |-> successCount, failureCount |-> failureCount,
     summaryLogged |-> summaryLogged]

Ended == {"returned", "exit0", "exit1"}

\* a request arrives: spawn('node', [script]), whatever else is running
ApiRun ==
    /\ other.pc = "none"
    /\ other' = [NoRun EXCEPT !.pc = "start"]
    /\ UNCHANGED <<running, callers>>

\* the processes take turns between their steps (each step ends at an await)
Yield ==
    /\ other.pc \notin Ended \cup {"none"}
    /\ other' = Locals
    /\ running' = 3 - running
    /\ pc' = other.pc
    /\ today' = other.today
    /\ eventsToCreate' = other.eventsToCreate
    /\ uniqueEventsToCreate' = other.uniqueEventsToCreate
    /\ timeMin' = other.timeMin
    /\ events' = other.events
    /\ delIdx' = other.delIdx
    /\ insIdx' = other.insIdx
    /\ successCount' = other.successCount
    /\ failureCount' = other.failureCount
    /\ summaryLogged' = other.summaryLogged
    /\ UNCHANGED <<variant, machineOffset, clock, schedule, runtimes,
                   seriesIndex, calendar, nextId, calls, callers>>

\* "aB" on day 2, at 00:30 and at 23:00
ConcRows == {r \in GoodRows : r.Title = TitleAB /\ r.Date = DateCell(2)}

InitConc ==
    /\ variant \in {"csv", "sheets"}
    /\ machineOffset = 0
    /\ clock \in StartInstants
    /\ schedule \in SeqsUpTo(ConcRows, MaxRows)
    /\ runtimes = <<>>
    /\ seriesIndex \in SeriesIndexTables
    /\ calendar \in SmallCalendars
    /\ nextId = FirstNewId
    /\ pc = "start"
    /\ today = 0
    /\ eventsToCreate = <<>>
    /\ uniqueEventsToCreate = <<>>
    /\ timeMin = 0
    /\ events = <<>>
    /\ delIdx = 1
    /\ insIdx = 1
    /\ successCount = 0
    /\ failureCount = 0
    /\ summaryLogged = FALSE
    /\ calls = <<>>
    /\ NavIdle /\ AsideIdle /\ BsIdle /\ FuIdle /\ ConcIdle /\ FrIdle

NextConc ==
    \/ ApiRun /\ UNCHANGED <<gcalVars, navVars, asideVars, bsVars, fuVars, frVars>>
    \/ Yield /\ UNCHANGED <<navVars, asideVars, bsVars, fuVars, frVars>>
    \/ ReadAndBuild /\ UNCHANGED <<navVars, asideVars, restVars>>
    \/ ListUpcoming /\ callers' = Append(callers, running)
           /\ UNCHANGED <<other, running, navVars, asideVars, bsVars, fuVars, frVars>>
    \/ DeleteEvent /\ callers' = Append(callers, running)
           /\ UNCHANGED <<other, running, navVars, asideVars, bsVars, fuVars, frVars>>
    \/ InsertEvent /\ callers' = Append(callers, running)
           /\ UNCHANGED <<other, running, navVars, asideVars, bsVars, fuVars, frVars>>
    \/ Finish /\ UNCHANGED <<navVars, asideVars, restVars>>

SpecConc == InitConc /\ [][NextConc]_vars

---------------------------------------------------------------------------
(* The row handler on its own: schedules that also hold rows with a        *)
(* malformed Date, no calendar traffic                                     *)

MalformedDateRows ==
    {[Title |-> TitleAB, SeriesTag |-> <<>>, URL |-> "",
      Date |-> d, Time |-> LateTime] : d \in {OtherDateLow, OtherDateHigh}}
    \cup
    {[Title |-> TitleAB, SeriesTag |-> <<>>, URL |-> "",
      Date |-> EmptyDate, Time |-> LateTime],
     [Title |-> <<>>, SeriesTag |-> <<>>, URL |-> "",
      Date |-> DateCell(2), Time |-> LateTime]}

InitParse ==
    /\ variant \in {"csv", "sheets"}
    /\ machineOffset \in MachineOffsets
    /\ clock \in StartInstants
    /\ schedule \in SeqsUpTo(RowPool \cup MalformedDateRows, MaxRows)
    /\ runtimes \in RuntimeTables
    /\ seriesIndex \in SeriesIndexTables
    /\ calendar = {}
    /\ nextId = FirstNewId
    /\ pc = "start"
    /\ today = 0
    /\ eventsToCreate = <<>>
    /\ uniqueEventsToCreate = <<>>
    /\ timeMin = 0
    /\ events = <<>>
    /\ delIdx = 1
    /\ insIdx = 1
    /\ successCount = 0
    /\ failureCount = 0
    /\ summaryLogged = FALSE
    /\ calls = <<>>
    /\ NavIdle /\ AsideIdle /\ RestIdle

NextParse == ReadAndBuild /\ UNCHANGED <<navVars, asideVars, restVars>>

SpecParse == InitParse /\ [][NextParse]_vars

---------------------------------------------------------------------------
(* utils.navigateWithRetry *)

NoError == [ok |-> TRUE, isError |-> FALSE, message |-> ""]

\* what page.goto may do: resolve, or reject with some value
GotoOutcomes ==
    {NoError,
     [ok |-> FALSE, isError |-> TRUE,
      message |-> "Navigation timeout of 60000 ms exceeded"],
     [ok |-> FALSE, isError |-> TRUE, message |-> "net::ERR_NAME_NOT_RESOLVED"],
     [ok |-> FALSE, isError |-> TRUE, message |-> "Protocol error: Target closed"],
     \* a rejection value that is no Error object
     [ok |-> FALSE, isError |-> FALSE,
      message |-> "Navigation timeout of 60000 ms exceeded"]}

\* message.includes('Navigation timeout')
IncludesNavigationTimeout(message) ==
    message = "Navigation timeout of 60000 ms exceeded"

\* error instanceof Error && error.message.includes('Navigation timeout')
IsNavigationTimeout(error) ==
    error.isError /\ IncludesNavigationTimeout(error.message)

\* a bug: attempt < maxRetries, one retry short
OnGotoErrorOffByOne(error, att, retries) ==
    IF error.isError /\ IncludesNavigationTimeout(error.message)
    THEN IF att < retries THEN "continue" ELSE "false"
    ELSE "throw"

\* a bug: every rejection is retried, whatever its message
OnGotoErrorRetryAll(error, att, retries) ==
    IF att <= retries THEN "continue" ELSE "false"

\* the catch block: "continue", "false" (return false) or "throw"
OnGotoError(error, att, retries) ==
    IF IsNavigationTimeout(error)
    THEN IF att <= retries THEN "continue" ELSE "false"
    ELSE "throw"

\* a bug: a retry that is not counted
NextAttemptStuck(att) == att

\* attempt++ of the for loop, reached by `continue`
NextAttempt(att) == att + 1

NavInit ==
    /\ maxRetries \in 0..MaxRetriesBound
    /\ attempt = 1
    /\ navStatus = "running"
    /\ navThrown = NoError
    /\ gotoLog = <<>>

\* one turn of the for loop (or, once the loop is over, the final return false)
NavStep ==
    /\ navStatus = "running"
    /\ IF attempt <= maxRetries + 1
       THEN \E o \in GotoOutcomes :
              /\ gotoLog' = Append(gotoLog, o)
              /\ IF o.ok
                 THEN /\ navStatus' = "true"
                      /\ UNCHANGED <<attempt, navThrown>>
                 ELSE LET todo == OnGotoError(o, attempt, maxRetries) IN
                      /\ navStatus' = CASE todo = "continue" -> "running"
                                        [] todo = "false" -> "false"
                                        [] OTHER -> "thrown"
                      /\ attempt' = IF todo = "continue" THEN NextAttempt(attempt)
                                    ELSE attempt
                      /\ navThrown' = IF todo = "throw" THEN o ELSE navThrown
       ELSE /\ navStatus' = "false"
            /\ UNCHANGED <<attempt, navThrown, gotoLog>>
    /\ UNCHANGED maxRetries

NavNext == NavStep /\ UNCHANGED <<gcalVars, asideVars, restVars>>

InitNav == NavInit /\ GCalIdle /\ AsideIdle /\ RestIdle

SpecNav == InitNav /\ [][NavNext]_vars

\* the call goes on as long as it has not returned or thrown: page.goto
\* settles within its timeout and the event loop then resumes the function
SpecNavFair == InitNav /\ [][NavNext]_vars /\ WF_vars(NavNext)

---------------------------------------------------------------------------
(* beaconSchedule (Google Sheets variant) as a process *)

\* navigateWithRetry's default for options.maxRetries
DefaultMaxRetries == 2

UrlCell == Text(<<"https://thebeacon.film/x">>)

Quoted(s) == <<"\"">> \o s \o <<"\"">>

\* "aB" on day 2 at 23:00, "Ab" on day 1 at 00:30 and once without a start
\* date, and the placeholder: padded with a blank, in lower case, quoted
PagePool ==
    {[rawTitle |-> TitleAB, startDate |-> [day |-> 2, min |-> 23 * 60],
      url |-> UrlCell],
     [rawTitle |-> TitleAb, startDate |-> [day |-> 1, min |-> 30],
      url |-> NoCell],
     [rawTitle |-> TitleAb, startDate |-> NoStart, url |-> NoCell]}
    \cup
    {[rawTitle |-> t, startDate |-> [day |-> 2, min |-> 23 * 60],
      url |-> UrlCell] :
        t \in {<<" ">> \o RentTheBeacon, LowerCase(RentTheBeacon),
               Quoted(RentTheBeacon)}}

SeriesHeader == <<HTitle, HSeriesTag, HDateRecorded>>

\* sheet 'series' with "aB" in series z, then twice in series t
RepeatedSeries ==
    <<SeriesHeader, <<Text(TitleAB), Text(<<"z">>), StampText(0)>>,
      <<Text(TitleAB), Text(<<"t">>), StampText(0)>>,
      <<Text(TitleAB), Text(<<"t">>), StampText(0)>>>>

\* sheet 'series': empty; "aB" in series t; "aB" in series z, a series that
\* seriesIndex no longer lists (beaconSeries only ever adds lines); "aB"
\* in t and "Ab" in z; the columns in another order; RepeatedSeries
SeriesSheets ==
    {<<>>, RepeatedSeries,
     <<SeriesHeader, <<Text(TitleAB), Text(<<"t">>), StampText(0)>>>>,
     <<SeriesHeader, <<Text(TitleAB), Text(<<"z">>), StampText(0)>>>>,
     <<SeriesHeader, <<Text(TitleAB), Text(<<"t">>), StampText(0)>>,
       <<Text(TitleAb), Text(<<"z">>), StampText(0)>>>>,
     <<<<HSeriesTag, HTitle, HDateRecorded>>,
       <<Text(<<"t">>), Text(TitleAB), StampText(0)>>>>}

\* what an earlier run left in sheet 'schedule': "aB" on day 0 at 23:00 and
\* on day 2 at 00:30
OldSchedule ==
    <<ScheduleHeader,
      <<Text(TitleAB), DateText(0), TimeText(23 * 60), UrlCell, NoCell,
        StampText(0)>>,
      <<Text(TitleAB), DateText(2), TimeText(30), UrlCell, Text(<<"t">>),
        StampText(0)>>>>

\* sheet 'schedule': empty; the header alone; OldSchedule; OldSchedule with
\* Date as the first column
ScheduleSheets ==
    {<<>>,
     <<ScheduleHeader>>,
     OldSchedule,
     <<<<HDate, HTitle, HTime, HURL, HSeriesTag, HDateRecorded>>,
       <<DateText(0), Text(TitleAB), TimeText(23 * 60), UrlCell, NoCell,
         StampText(0)>>,
       <<DateText(2), Text(TitleAB), TimeText(30), UrlCell, Text(<<"t">>),
         StampText(0)>>>>}

BsInit ==
    /\ listing \in SeqsUpTo(PagePool, MaxListings)
    /\ seriesSheet \in SeriesSheets
    /\ scheduleSheet \in ScheduleSheets
    /\ scheduleBefore = scheduleSheet
    /\ bsPc = "start"

\* from the start to the call of navigateWithRetry: sheet 'series' is read,
\* the browser launched
BsStart ==
    /\ bsPc = "start"
    /\ \E ok \in BOOLEAN :
         IF ok
         THEN /\ bsPc' = "nav"
              /\ maxRetries' = DefaultMaxRetries
              /\ attempt' = 1
              /\ navStatus' = "running"
              /\ UNCHANGED <<navThrown, gotoLog>>
         ELSE /\ bsPc' = "failed"
              /\ UNCHANGED navVars
    /\ UNCHANGED <<listing, seriesSheet, scheduleSheet, scheduleBefore>>

\* navigateWithRetry(page, calendarUrl, { logger }) at work
BsNavigate ==
    /\ bsPc = "nav"
    /\ NavStep
    /\ UNCHANGED bsVars

\* a bug: the removal of the future screenings done before the navigation
SheetOnNavFailureFiltered(sheet, todayDate) ==
    setSheetRows(sheet, FilteredRows(sheet, todayDate))

\* sheet 'schedule' when navigateWithRetry returned false (return) or threw
\* (catch, finally): neither path writes it
SheetOnNavFailure(sheet, todayDate) == sheet

\* after navigateWithRetry: return (false), catch (thrown), or the page is
\* scraped and the sheet written. On a page without event blocks the
\* function evaluated in the page calls logger.warn, a name the page does
\* not have, and page.evaluate rejects. A call of the Sheets API that fails
\* leaves what was written before it.
BsFinish ==
    /\ bsPc = "nav"
    /\ navStatus \in {"true", "false", "thrown"}
    /\ IF navStatus = "true"
       THEN \E sheetsOk \in BOOLEAN :
              IF Len(listing) = 0
              THEN /\ bsPc' = "failed"
                   /\ UNCHANGED scheduleSheet
              ELSE IF sheetsOk
              THEN /\ scheduleSheet' =
                        WrittenSchedule(scheduleSheet, seriesSheet, listing, clock)
                   /\ bsPc' = "done"
              ELSE /\ scheduleSheet' \in
                        {scheduleSheet,
                         setSheetRows(scheduleSheet,
                             FilteredRows(scheduleSheet, UTCDate(clock)))}
                   /\ bsPc' = "failed"
       ELSE /\ bsPc' = "navFailed"
            /\ scheduleSheet' = SheetOnNavFailure(scheduleSheet, UTCDate(clock))
    /\ UNCHANGED <<listing, seriesSheet, scheduleBefore, navVars>>

InitSchedule ==
    /\ BsInit
    /\ variant = "sheets" /\ machineOffset = 0
    /\ clock \in StartInstants
    /\ schedule = <<>> /\ runtimes = <<>>
    /\ seriesIndex \in SeriesIndexTables
    /\ calendar = {} /\ nextId = 0 /\ pc = "idle" /\ today = 0
    /\ eventsToCreate = <<>> /\ uniqueEventsToCreate = <<>>
    /\ timeMin = 0 /\ events = <<>> /\ delIdx = 0 /\ insIdx = 0
    /\ successCount = 0 /\ failureCount = 0 /\ summaryLogged = FALSE
    /\ calls = <<>>
    /\ NavIdle /\ AsideIdle /\ FuIdle /\ ConcIdle /\ FrIdle

NextSchedule ==
    \/ BsStart /\ UNCHANGED <<gcalVars, asideVars, fuVars, concVars, frVars>>
    \/ BsNavigate /\ UNCHANGED <<gcalVars, asideVars, fuVars, concVars, frVars>>
    \/ BsFinish /\ UNCHANGED <<gcalVars, asideVars, fuVars, concVars, frVars>>

SpecSchedule == InitSchedule /\ [][NextSchedule]_vars

---------------------------------------------------------------------------
(* findRuntimes (Google Sheets variant) *)

HRuntime == Text(<<"R", "u", "n", "t", "i", "m", "e">>)
RuntimesHeader == <<HTitle, HRuntime>>

\* the lines of a sheet after its header as objects with two fields, found
\* through header.indexOf, those with an empty field left out
\* (scheduleRows with 'URL', runtimesRows with 'Runtime')
TitledRows(sheet, second) ==
    LET header == IF Len(sheet) > 0 THEN sheet[1] ELSE <<>>
        at(line, name) == CellAt(line, IndexOf(header, name))
        all == [i \in 1..(Len(sheet) - 1) |->
                   [Title |-> at(sheet[i + 1], HTitle),
                    Other |-> at(sheet[i + 1], second)]]
    IN  SelectSeq(all, LAMBDA r : Truthy(r.Title) /\ Truthy(r.Other))

\* row.Title.trim()
TrimCell(c) == Text(Trim(c.s))

\* processedTitles
ProcessedTitles(sheet) ==
    LET rows == TitledRows(sheet, HRuntime)
    IN  {TrimCell(rows[i].Title) : i \in 1..Len(rows)}

\* urls: URL -> Title.trim() over the rows whose title has no runtime yet; the
\* entries of a Map come in the order of the first set of each key
UrlsToVisit(schedSheet, rtSheet) ==
    LET rows == SelectSeq(TitledRows(schedSheet, HURL),
                    LAMBDA r : TrimCell(r.Title) \notin ProcessedTitles(rtSheet))
        byUrl == MapOfPairs([i \in 1..Len(rows) |->
                                <<rows[i].Other, TrimCell(rows[i].Title)>>])
        all == [i \in 1..Len(rows) |-> rows[i].Other]
        order == deduplicateRows(all, [u \in {all[i] : i \in 1..Len(all)} |-> u])
    IN  [i \in 1..Len(order) |-> [url |-> order[i], title |-> byUrl[order[i]]]]

\* results.push({ url, title, runtime: 'N/A' }): an object that has no Title
\* and no Runtime
NotLoaded(entry) ==
    [Title |-> Undefined, Runtime |-> Undefined,
     url |-> entry.url, title |-> entry.title]

\* results.push({ Title: title, Runtime: runtime })
Found(entry, runtime) ==
    [Title |-> entry.title, Runtime |-> runtime,
     url |-> Undefined, title |-> Undefined]

\* what the page of a film shows next to "runtime": nothing, or a text
PageRuntimes == {NoCell, Text(<<"90 minutes">>)}

\* results after one turn of the loop over urls: navigateWithRetry returned
\* false, returned true (and the page shows runtime), or threw
ResultsAfter(res, entry, status, runtime) ==
    CASE status = "false" -> Append(res, NotLoaded(entry))
      [] status = "true" /\ Truthy(runtime) -> Append(res, Found(entry, runtime))
      [] OTHER -> res

\* uniqueResults = deduplicateRows(results, rec => rec.Title)
UniqueResults(res) ==
    deduplicateRows(res, [r \in {res[i] : i \in 1..Len(res)} |-> r.Title])

\* sheet 'runtimes' after the write-back
WrittenRuntimes(sheet, res) ==
    LET uniq == UniqueResults(res)
    IN  IF Len(uniq) = 0
        THEN IF Len(sheet) = 0 THEN setSheetRows(sheet, <<RuntimesHeader>>)
             ELSE sheet
        ELSE setSheetRows(sheet,
                 <<RuntimesHeader>> \o
                 [i \in 1..Len(uniq) |-> <<uniq[i].Title, uniq[i].Runtime>>])

UrlY == Text(<<"https://thebeacon.film/y">>)

\* lines of sheet 'schedule': "aB" at URL x, "Ab" at URL y, "aB " at URL y,
\* "Ab" without URL
FrLinePool ==
    {<<Text(t), DateText(2), TimeText(23 * 60), u, NoCell, StampText(0)>> :
        t \in {TitleAB}, u \in {UrlCell}}
    \cup
    {<<Text(TitleAb), DateText(2), TimeText(23 * 60), u, NoCell, StampText(0)>> :
        u \in {UrlY, NoCell}}
    \cup
    {<<Text(TitleAB \o <<" ">>), DateText(2), TimeText(30), UrlY, NoCell,
       StampText(0)>>}

\* sheet 'runtimes': empty; the header alone; "aB" with its runtime; "Ab"
\* without a runtime and "c" with one
RuntimesSheets ==
    {<<>>,
     <<RuntimesHeader>>,
     <<RuntimesHeader, <<Text(TitleAB), Text(<<"90 minutes">>)>>>>,
     <<RuntimesHeader, <<Text(TitleAb), NoCell>>,
       <<Text(<<"c">>), Text(<<"2 hours">>)>>>>}

\* the start, up to the first navigateWithRetry: the sheets are read, urls is
\* built; with no URL to visit the script returns
FrStart ==
    /\ frPc = "start"
    /\ \E ok \in BOOLEAN :
         IF ~ok
         THEN /\ frPc' = "failed"
              /\ UNCHANGED <<urls, navVars>>
         ELSE /\ urls' = UrlsToVisit(scheduleSheet, runtimesSheet)
              /\ IF Len(urls') = 0
                 THEN /\ frPc' = "done"
                      /\ UNCHANGED navVars
                 ELSE /\ frPc' = "loop"
                      /\ maxRetries' = DefaultMaxRetries
                      /\ attempt' = 1
                      /\ navStatus' = "running"
                      /\ UNCHANGED <<navThrown, gotoLog>>
    /\ UNCHANGED <<runtimesSheet, runtimesBefore, results, runtimesAdded, frLog>>

\* navigateWithRetry(page, url, { logger }) at work
FrNavigate ==
    /\ frPc = "loop"
    /\ NavStep
    /\ UNCHANGED frVars

\* the rest of one turn of the loop over urls, and the next URL if any
FrAfterNav ==
    /\ frPc = "loop"
    /\ navStatus \in {"true", "false", "thrown"}
    /\ \E shown \in PageRuntimes :
         LET entry == urls[Len(frLog) + 1]
             runtime == IF navStatus = "true" THEN shown ELSE NoCell
         IN  /\ results' = ResultsAfter(results, entry, navStatus, runtime)
             /\ frLog' = Append(frLog, [url |-> entry.url, title |-> entry.title,
                                        nav |-> navStatus, runtime |-> runtime])
    /\ IF Len(frLog) + 1 < Len(urls)
       THEN /\ frPc' = "loop"
            /\ attempt' = 1
            /\ navStatus' = "running"
            /\ navThrown' = NoError
            /\ gotoLog' = <<>>
            /\ UNCHANGED maxRetries
       ELSE /\ frPc' = "write"
            /\ UNCHANGED navVars
    /\ UNCHANGED <<runtimesSheet, runtimesBefore, urls, runtimesAdded>>

\* the write-back; the count is logged once the sheet is written
FrWrite ==
    /\ frPc = "write"
    /\ \E ok \in BOOLEAN :
         IF ok
         THEN /\ runtimesSheet' = WrittenRuntimes(runtimesSheet, results)
              /\ runtimesAdded' = Len(UniqueResults(results))
              /\ frPc' = "done"
         ELSE /\ frPc' = "failed"
              /\ UNCHANGED <<runtimesSheet, runtimesAdded>>
    /\ UNCHANGED <<runtimesBefore, urls, results, frLog>>

InitRuntimes ==
    /\ GCalIdle /\ NavIdle /\ AsideIdle /\ FuIdle /\ ConcIdle
    /\ listing = <<>> /\ seriesSheet = <<>> /\ scheduleBefore = <<>>
    /\ bsPc = "idle"
    /\ scheduleSheet \in
          {<<ScheduleHeader>> \o lines : lines \in SeqsUpTo(FrLinePool, MaxUrls)}
    /\ runtimesSheet \in RuntimesSheets
    /\ runtimesBefore = runtimesSheet
    /\ frPc = "start"
    /\ urls = <<>> /\ results = <<>> /\ runtimesAdded = 0 /\ frLog = <<>>

NextRuntimes ==
    \/ FrStart /\ UNCHANGED <<gcalVars, asideVars, bsVars, fuVars, concVars>>
    \/ FrNavigate /\ UNCHANGED <<gcalVars, asideVars, bsVars, fuVars, concVars>>
    \/ FrAfterNav /\ UNCHANGED <<gcalVars, asideVars, bsVars, fuVars, concVars>>
    \/ FrWrite /\ UNCHANGED <<gcalVars, navVars, asideVars, bsVars, fuVars, concVars>>

SpecRuntimes == InitRuntimes /\ [][NextRuntimes]_vars

---------------------------------------------------------------------------
(* fullUpdate: the four scripts one after the other *)

\* beaconSeries' write to sheet 'series': the records found are appended, to
\* a fresh header when the sheet's first cell is not 'Title'
SeriesAppended(sheet, newRecords) ==
    IF Len(newRecords) = 0 THEN sheet
    ELSE setSheetRows(sheet,
             (IF Len(sheet) = 0 \/ CellAt(sheet[1], 1) # HTitle
              THEN <<SeriesHeader>> ELSE sheet) \o newRecords)

\* the record beaconSeries finds on the page of series t
FoundRecords(now) ==
    {<<>>, <<<<Text(TitleAb), Text(<<"t">>), StampText(now)>>>>}

\* runScript going on whatever the exit code
AfterScriptIgnoreExit(exitCode, next) == next

\* runScript's verdict on a script that has ended: execSync throws on an
\* exit code other than 0 and fullUpdate exits with code 1
AfterScript(exitCode, next) == IF exitCode # 0 THEN "stopped" ELSE next

\* checkStepOutput: exit with code 1 when the file is missing or empty
AfterCheck(fileOk, next) == IF fileOk THEN next ELSE "stopped"

\* the exit code of beaconSchedule: every error is caught and logged, the
\* process ends on its own
ExitCodeOfSchedule(endedAt) == 0

\* the exit code of updateGCal
ExitCodeOfGCal(endedAt) == IF endedAt = "exit1" THEN 1 ELSE 0

FuInit ==
    /\ variant = "sheets"
    /\ machineOffset = 0
    /\ clock \in StartInstants
    /\ schedule = <<>>
    /\ runtimes = <<>>
    /\ seriesIndex \in SeriesIndexTables
    /\ calendar \in SmallCalendars
    /\ nextId = FirstNewId
    /\ pc = "idle"
    /\ today = 0
    /\ eventsToCreate = <<>>
    /\ uniqueEventsToCreate = <<>>
    /\ timeMin = 0
    /\ events = <<>>
    /\ delIdx = 1
    /\ insIdx = 1
    /\ successCount = 0
    /\ failureCount = 0
    /\ summaryLogged = FALSE
    /\ calls = <<>>
    /\ NavIdle /\ AsideIdle
    /\ listing \in SeqsUpTo(PagePool, 1)
    /\ seriesSheet \in
          {<<>>, <<SeriesHeader, <<Text(TitleAB), Text(<<"t">>), StampText(0)>>>>}
    /\ scheduleSheet \in {<<ScheduleHeader>>, OldSchedule}
    /\ scheduleBefore = scheduleSheet
    /\ bsPc = "idle"
    /\ fuPc = "series"
    /\ started = <<>>
    /\ exitCodes = <<>>
    /\ ConcIdle /\ FrIdle

\* step 1: the prompt, beaconSeries.js, checkStepOutput
FuSeries ==
    /\ fuPc = "series"
    /\ \E shouldRun \in BOOLEAN, exitCode \in {0, 1}, fileOk \in BOOLEAN,
          found \in FoundRecords(clock) :
         IF shouldRun
         THEN /\ started' = Append(started, "beaconSeries.js")
              /\ exitCodes' = Append(exitCodes, exitCode)
              /\ seriesSheet' = SeriesAppended(seriesSheet, found)
              /\ fuPc' = AfterScript(exitCode, AfterCheck(fileOk, "schedule"))
         ELSE /\ fuPc' = AfterCheck(fileOk, "schedule")
              /\ UNCHANGED <<started, exitCodes, seriesSheet>>
    /\ UNCHANGED <<listing, scheduleSheet, scheduleBefore, bsPc>>

\* step 2: the prompt, and beaconSchedule.js is started
FuSchedule ==
    /\ fuPc = "schedule"
    /\ \E shouldRun \in BOOLEAN, fileOk \in BOOLEAN :
         IF shouldRun
         THEN /\ started' = Append(started, "beaconSchedule.js")
              /\ bsPc' = "start"
              /\ scheduleBefore' = scheduleSheet
              /\ fuPc' = "scheduleRunning"
         ELSE /\ fuPc' = AfterCheck(fileOk, "runtimes")
              /\ UNCHANGED <<started, bsPc, scheduleBefore>>
    /\ UNCHANGED <<exitCodes, listing, seriesSheet, scheduleSheet>>

\* step 2, once beaconSchedule.js has ended: runScript, checkStepOutput
FuAfterSchedule ==
    /\ fuPc = "scheduleRunning"
    /\ bsPc \in {"done", "navFailed", "failed"}
    /\ \E fileOk \in BOOLEAN :
         fuPc' = AfterScript(ExitCodeOfSchedule(bsPc), AfterCheck(fileOk, "runtimes"))
    /\ exitCodes' = Append(exitCodes, ExitCodeOfSchedule(bsPc))
    /\ UNCHANGED <<bsVars, started>>

\* step 3: the prompt, findRuntimes.js (which rewrites the runtimes table),
\* checkStepOutput
FuRuntimes ==
    /\ fuPc = "runtimes"
    /\ \E shouldRun \in BOOLEAN, exitCode \in {0, 1}, fileOk \in BOOLEAN,
          table \in {runtimes} \cup RuntimeTables :
         IF shouldRun
         THEN /\ started' = Append(started, "findRuntimes.js")
              /\ exitCodes' = Append(exitCodes, exitCode)
              /\ runtimes' = table
              /\ fuPc' = AfterScript(exitCode, AfterCheck(fileOk, "gcal"))
         ELSE /\ fuPc' = AfterCheck(fileOk, "gcal")
              /\ UNCHANGED <<started, exitCodes, runtimes>>
    /\ UNCHANGED bsVars

\* step 4: the prompt, and updateGCal.js is started; it reads sheet 'schedule'
FuGCal ==
    /\ fuPc = "gcal"
    /\ \E shouldRun \in BOOLEAN :
         IF shouldRun
         THEN /\ started' = Append(started, "updateGCal.js")
              /\ schedule' = RowsOfSheet(scheduleSheet)
              /\ pc' = "start"
              /\ fuPc' = "gcalRunning"
         ELSE /\ fuPc' = "complete"
              /\ UNCHANGED <<started, schedule, pc>>
    /\ UNCHANGED <<exitCodes, bsVars>>

\* step 4, once updateGCal.js has ended
FuAfterGCal ==
    /\ fuPc = "gcalRunning"
    /\ pc \in {"returned", "exit0", "exit1"}
    /\ fuPc' = AfterScript(ExitCodeOfGCal(pc), "complete")
    /\ exitCodes' = Append(exitCodes, ExitCodeOfGCal(pc))
    /\ UNCHANGED <<bsVars, started>>

gcalRest == <<variant, machineOffset, clock, seriesIndex, calendar, nextId,
              today, eventsToCreate, uniqueEventsToCreate, timeMin, events,
              delIdx, insIdx, successCount, failureCount, summaryLogged, calls>>

NextFull ==
    \/ FuSeries /\ UNCHANGED <<gcalVars, navVars, asideVars, concVars, frVars>>
    \/ FuSchedule /\ UNCHANGED <<gcalVars, navVars, asideVars, concVars, frVars>>
    \/ fuPc = "scheduleRunning" /\ BsStart
           /\ UNCHANGED <<gcalVars, asideVars, fuVars, concVars, frVars>>
    \/ fuPc = "scheduleRunning" /\ BsNavigate
           /\ UNCHANGED <<gcalVars, asideVars, fuVars, concVars, frVars>>
    \/ fuPc = "scheduleRunning" /\ BsFinish
           /\ UNCHANGED <<gcalVars, asideVars, fuVars, concVars, frVars>>
    \/ FuAfterSchedule /\ UNCHANGED <<gcalVars, navVars, asideVars, concVars, frVars>>
    \/ FuRuntimes
           /\ UNCHANGED <<schedule, pc, gcalRest, navVars, asideVars, concVars, frVars>>
    \/ FuGCal
           /\ UNCHANGED <<runtimes, gcalRest, navVars, asideVars, concVars, frVars>>
    \/ fuPc = "gcalRunning" /\ ReadAndBuild
           /\ UNCHANGED <<navVars, asideVars, restVars>>
    \/ fuPc = "gcalRunning" /\ ListUpcoming
           /\ UNCHANGED <<navVars, asideVars, restVars>>
    \/ fuPc = "gcalRunning" /\ DeleteEvent
           /\ UNCHANGED <<navVars, asideVars, restVars>>
    \/ fuPc = "gcalRunning" /\ InsertEvent
           /\ UNCHANGED <<navVars, asideVars, restVars>>
    \/ fuPc = "gcalRunning" /\ Finish
           /\ UNCHANGED <<navVars, asideVars, restVars>>
    \/ FuAfterGCal /\ UNCHANGED <<gcalVars, navVars, asideVars, concVars, frVars>>

SpecFull == FuInit /\ [][NextFull]_vars

---------------------------------------------------------------------------
(* utils.deduplicateRows, called on its own *)

\* the key functions the callers pass
\*   rec => rec.Title
\*   rec => `${rec.Title}|${rec.SeriesTag}`
\*   event => `${event.title}|${event.date}|${event.time}`
KeyFns == {"Title", "Title|SeriesTag", "title|date|time"}

KeyOf(fn, row) ==
    CASE fn = "Title" -> <<row.Title>>
      [] fn = "Title|SeriesTag" -> <<row.Title, row.SeriesTag>>
      [] OTHER -> <<row.Title, row.Date, row.Time>>

DedupRowPool ==
    [Title : {"x", "y"}, SeriesTag : {"s", "t"}, Date : {1, 2}, Time : {"19:00"}]

DedupInit ==
    /\ dedupRows \in SeqsUpTo(DedupRowPool, MaxDedupLen)
    /\ dedupKeyFn \in KeyFns
    /\ dedupResult = <<>>
    /\ dedupStatus = "called"

DedupCall ==
    /\ dedupStatus = "called"
    /\ dedupResult' = deduplicateRows(dedupRows,
           [r \in {dedupRows[i] : i \in 1..Len(dedupRows)} |-> KeyOf(dedupKeyFn, r)])
    /\ dedupStatus' = "returned"
    /\ UNCHANGED <<dedupRows, dedupKeyFn>>

DedupNext ==
    DedupCall /\ UNCHANGED <<gcalVars, navVars, normVars, twiceVars, restVars>>

InitDedup == DedupInit /\ NormIdle /\ TwiceIdle /\ GCalIdle /\ NavIdle /\ RestIdle

SpecDedup == InitDedup /\ [][DedupNext]_vars

---------------------------------------------------------------------------
(* beaconSchedule's normalizeTitle, called on its own *)

\* the characters of the titles: a double quote, a blank, a lower-case and
\* an upper-case letter
TitleChars == {"\"", " ", "a", "B"}

NormInit ==
    /\ normTitle \in SeqsUpTo(TitleChars, MaxTitleLen)
    /\ normResult = <<>>
    /\ normStatus = "called"

NormCall ==
    /\ normStatus = "called"
    /\ normResult' = normalizeTitle(normTitle)
    /\ normStatus' = "returned"
    /\ UNCHANGED normTitle

NormNext ==
    NormCall /\ UNCHANGED <<gcalVars, navVars, dedupVars, twiceVars, restVars>>

InitNormalize == NormInit /\ DedupIdle /\ TwiceIdle /\ GCalIdle /\ NavIdle /\ RestIdle

SpecNormalize == InitNormalize /\ [][NormNext]_vars

---------------------------------------------------------------------------
(* Properties of a pass of updateGCal (Spec) *)

CallIdx == 1..Len(calls)
AllCallsOk == \A i \in CallIdx : calls[i].ok
Deleted(id, before) ==
    \E j \in 1..(before - 1) : calls[j].op = "delete" /\ calls[j].id = id
InsertedAfter(event, after) ==
    \E j \in CallIdx : j > after /\ calls[j].op = "insert"
                       /\ calls[j].resource = event

\* the entries a listing with lower bound timeMin on the start time returns
FutureEntries == {e \in calendar : e.start >= timeMin}

\* C1: after a pass with a non-empty kept set whose calls all succeeded, the
\* future entries of the calendar (start >= the cutoff of the pass) are
\* exactly the kept events, one entry per kept event, and none of the
\* entries that were there before.
C1_ReconciliationOwnership ==
    (pc = "exit0" /\ AllCallsOk /\ Len(uniqueEventsToCreate) > 0) =>
        /\ \A e \in FutureEntries : e \notin PreExistingPool
        /\ \A i \in 1..Len(uniqueEventsToCreate) :
              Cardinality({e \in FutureEntries :
                              e = EntryOf(e.id, uniqueEventsToCreate[i])}) = 1
        /\ Cardinality(FutureEntries) = Len(uniqueEventsToCreate)

\* C2: no insert call is issued before the listing and before a delete was
\* attempted for every listed entry.
C2_DeleteBeforeInsert ==
    \A i \in CallIdx :
        calls[i].op = "insert" =>
            /\ \E j \in 1..(i - 1) : calls[j].op = "list"
            /\ \A k \in 1..Len(events) : Deleted(events[k].id, i)

\* C2, its case: two entries were listed, both deletes came first, then an
\* insert.
C2_Witness ==
    /\ Len(events) = 2
    /\ \E i \in CallIdx : calls[i].op = "insert" /\ i > 3

\* C6: the end of every event is its start plus the runtime's N + 15 minutes
\* when the runtime text matches ^(\d+)\s*minutes$ (any case), plus 120
\* minutes otherwise.
C6_DurationPolicy ==
    \A k \in 1..Len(eventsToCreate) :
        LET ev == eventsToCreate[k]
            rt == ev.description.runtime
            matches == rt.pre = "" /\ rt.num >= 0
                       /\ rt.unit \in {"minutes", "MINUTES", "Minutes"}
        IN  InstantOf(ev.end.dateTime) - InstantOf(ev.start.dateTime)
                = IF matches THEN rt.num + 15 ELSE 120

\* C7: every event passed to calendar insert starts strictly before it ends.
C7_StartBeforeEnd ==
    \A i \in CallIdx :
        calls[i].op = "insert" =>
            InstantOf(calls[i].resource.start.dateTime)
                < InstantOf(calls[i].resource.end.dateTime)

\* the calendar date of an instant on the wall clock of a zone
WallDate(instant, offset) == (instant + offset) \div Day

\* a row that has its fields, in the right form
WellFormed(row) ==
    /\ row.Title # <<>>
    /\ row.Date.form = "YYYY-MM-DD"
    /\ row.Time.form = "HH:MM"
Kept(row) ==
    \E k \in 1..Len(eventsToCreate) :
        eventsToCreate[k] = BuildEvent(variant, row, machineOffset,
                                       RuntimesMap(runtimes),
                                       SeriesMap(seriesIndex))

\* C8: once the schedule is read, a row is kept iff its Date is today's date
\* at the venue or later, whatever the time of day of the run.
C8_HorizonFilter ==
    pc \in {"list", "returned"} =>
        \A i \in 1..Len(schedule) :
            WellFormed(schedule[i]) =>
                (Kept(schedule[i])
                    <=> schedule[i].Date.day >= WallDate(clock, VenueOffset))

\* the Date cell of the row whose event starts at the given instant
DateOfStart(instant) ==
    IF variant = "csv" THEN WallDate(instant, machineOffset)
    ELSE WallDate(instant, VenueOffset)

\* C9: the listing for deletion and the horizon filter use one cutoff: an
\* entry of the calendar is listed exactly when an event with the same start
\* would be kept by the horizon filter.
C9_SingleCutoff ==
    (Len(calls) = 1 /\ calls[1].op = "list" /\ calls[1].ok) =>
        \A e \in calendar :
            (\E k \in 1..Len(events) : events[k] = e)
                <=> DateOfStart(e.start) >= today

\* C10: a failed delete stops neither the deletion of the entries listed
\* after it nor the insertion of every kept event, and what was deleted
\* stays deleted.
C10_BestEffortDeletion ==
    \A j \in CallIdx :
        (calls[j].op = "delete" /\ ~calls[j].ok) =>
            /\ pc \in {"delete", "insert", "exit0"}
            /\ pc = "delete" => delIdx <= Len(events)
            /\ pc \in {"insert", "exit0"} =>
                  \A k \in 1..Len(events) : Deleted(events[k].id, Len(calls) + 1)
            /\ pc = "exit0" =>
                  \A i \in 1..Len(uniqueEventsToCreate) :
                      InsertedAfter(uniqueEventsToCreate[i], j)
            /\ \A k \in CallIdx :
                  (calls[k].op = "delete" /\ calls[k].ok) =>
                      \A e \in calendar : e.id # calls[k].id

\* C10, its case: the delete of the first of two listed entries failed, the
\* second was deleted all the same, and the pass went on to insert.
C10_Witness ==
    /\ pc = "exit0"
    /\ Len(events) = 2
    /\ \E j \in 1..(Len(calls) - 2) :
          /\ calls[j].op = "delete" /\ ~calls[j].ok /\ calls[j].id = events[1].id
          /\ calls[j + 1].op = "delete" /\ calls[j + 1].ok
          /\ calls[j + 2].op = "insert"
    /\ events[1] \in calendar /\ events[2] \notin calendar

\* the insert calls issued so far, in order
InsertCalls == SelectSeq(calls, LAMBDA c : c.op = "insert")

\* C11: a failed insert does not stop the insertion loop: when the pass ends
\* one insert call was issued for each unique kept event, in order; created
\* is the number of insert calls that succeeded, and created + failed is the
\* number of unique kept events.
C11_InsertFailuresAggregated ==
    pc = "exit0" =>
        /\ Len(InsertCalls) = Len(uniqueEventsToCreate)
        /\ \A i \in 1..Len(InsertCalls) :
              InsertCalls[i].resource = uniqueEventsToCreate[i]
        /\ successCount = Len(InsertCalls) - Failures(InsertCalls)
        /\ successCount + failureCount = Len(uniqueEventsToCreate)

\* C11, its case: of two unique kept events the insert of the first failed
\* and the second was inserted all the same.
C11_Witness ==
    /\ pc = "exit0"
    /\ Len(uniqueEventsToCreate) = 2
    /\ Len(InsertCalls) = 2
    /\ ~InsertCalls[1].ok /\ InsertCalls[2].ok
    /\ successCount = 1 /\ failureCount = 1

\* C17: the start.dateTime and end.dateTime sent on insert are wall-clock
\* times without conversion to UTC, and the start denotes the Date and Time
\* of the schedule row on the venue's clock, whatever the machine's zone.
C17_LocalWallTime ==
    \A j \in CallIdx :
        calls[j].op = "insert" =>
            \E i \in 1..Len(schedule) :
                LET row == schedule[i]
                    ev == calls[j].resource
                IN  /\ WellFormed(row)
                    /\ ev = BuildEvent(variant, row, machineOffset,
                                       RuntimesMap(runtimes),
                                       SeriesMap(seriesIndex))
                    /\ ~ev.start.dateTime.zulu
                    /\ ~ev.end.dateTime.zulu
                    /\ ev.start.dateTime.t = row.Date.day * Day + row.Time.min
                    /\ InstantOf(ev.start.dateTime)
                          = row.Date.day * Day + row.Time.min - VenueOffset

\* connectToCalendar is over: process.exit(0), process.exit(1), or return
Terminated == pc \in {"exit0", "exit1", "returned"}

\* C18: every way a pass ends (all inserts done, nothing to create, an error
\* before the reconciliation) has logged a summary line with the counts.
C18_FinalSummaryAlways == Terminated => summaryLogged

\* the rows were handed to the row handler (the tables could be read)
RowsHandled == pc # "start" /\ today = UTCDate(clock)

MissingField(row) ==
    row.Title = <<>> \/ row.Date.form = "" \/ row.Time.form = ""

\* the level at which the drop of a row is to be logged: "warn" for a
\* missing field, "error" for a Date that is not YYYY-MM-DD or (on a row
\* that is not past) a Time that is not HH:MM, "none" for the other rows
DropLevel(row) ==
    IF MissingField(row) THEN "warn"
    ELSE IF row.Date.form # "YYYY-MM-DD" THEN "error"
    ELSE IF row.Date.day >= today /\ row.Time.form # "HH:MM" THEN "error"
    ELSE "none"

\* C13: handling the rows never ends the run: a row with a missing field is
\* dropped with a warning, a row with a malformed Date or Time is dropped
\* with an error-level line, and every well-formed row of today or later
\* still becomes an event.
C13_PerRowValidation ==
    RowsHandled =>
        /\ pc # "exit1"
        /\ \A i \in 1..Len(schedule) :
              LET row == schedule[i]
                  o == RowOutcome(variant, row, today, machineOffset,
                                  RuntimesMap(runtimes), SeriesMap(seriesIndex))
              IN  /\ DropLevel(row) # "none" =>
                        LogLevel(o.kind) = DropLevel(row)
                  /\ (WellFormed(row) /\ row.Date.day >= today) => Kept(row)

---------------------------------------------------------------------------
(* Properties of a pass of updateGCal: the guards (Spec) *)

\* C23: in every step that leaves eventsToCreate empty, no calendar call has
\* been issued, the calendar is left as it was, and connectToCalendar has
\* not gone past its early return
C23_EmptyResultGuard ==
    [][eventsToCreate' = <<>> =>
          /\ calls' = <<>>
          /\ calendar' = calendar
          /\ pc' \in {"returned", "exit1"}]_vars

\* a schedule with rows, none of which gives an event, against a calendar
\* that holds entries: the pass has returned
C23_Witness ==
    /\ pc = "returned"
    /\ Len(schedule) > 0
    /\ eventsToCreate = <<>>
    /\ calendar # {}
    /\ calls = <<>>

---------------------------------------------------------------------------
(* Properties of a pass of updateGCal: a failed listing (Spec) *)

ListFailed == \E i \in 1..Len(calls) : calls[i].op = "list" /\ ~calls[i].ok

\* C26: once the list call of deleteUpcomingEvents has failed, no delete is
\* ever issued, connectToCalendar goes on to the insertion loop instead of
\* its catch block, every event of uniqueEventsToCreate has been sent to
\* insert when the pass ends, and no entry leaves the calendar
C26_ListFailureSwallowed ==
    /\ [](ListFailed =>
            /\ \A i \in 1..Len(calls) : calls[i].op # "delete"
            /\ pc \in {"insert", "exit0"}
            /\ pc = "exit0" =>
                  \A k \in 1..Len(uniqueEventsToCreate) :
                     \E i \in 1..Len(calls) :
                        /\ calls[i].op = "insert"
                        /\ calls[i].resource = uniqueEventsToCreate[k])
    /\ [][ListFailed' => calendar \subseteq calendar']_vars

\* the pass has ended after a failed listing: an entry that was on the
\* calendar before, and ends after timeMin, stands next to a new one
C26_Witness ==
    /\ pc = "exit0"
    /\ ListFailed
    /\ \E e \in calendar : e.id < FirstNewId /\ e.end > timeMin
    /\ \E e \in calendar : e.id >= FirstNewId

---------------------------------------------------------------------------
(* Properties of a pass of updateGCal: what lies before timeMin (Spec) *)

\* C27: every delete call is for an entry of the listing, and an entry that
\* ends at or before the timeMin of the listing is left on the calendar,
\* unchanged, by every step of the pass
C27_PastEntriesUntouched ==
    /\ [](\A i \in 1..Len(calls) :
             calls[i].op = "delete" =>
                \E k \in 1..Len(events) : events[k].id = calls[i].id)
    /\ [][\A e \in calendar : e.end <= timeMin' => e \in calendar']_vars

\* the pass has ended, it has deleted an entry, and an entry that was on
\* the calendar before and ended before timeMin is still there
C27_Witness ==
    /\ pc = "exit0"
    /\ \E i \in 1..Len(calls) : calls[i].op = "delete" /\ calls[i].ok
    /\ \E e \in calendar : e.id < FirstNewId /\ e.end <= timeMin

---------------------------------------------------------------------------
(* Properties of two runs of updateGCal in succession (SpecTwice) *)

\* what a calendar entry shows: its title and its times
ShownOf(e) == <<e.summary, e.start, e.end>>

\* C25: when the second of two runs on the same tables has ended and no API
\* call has failed, the calendar shows the events it showed after the first
\* run, none of them twice
C25_SyncIdempotent ==
    (pass = 2 /\ pc \in {"returned", "exit0"} /\ Failures(calls) = 0) =>
        /\ {ShownOf(e) : e \in calendar} = {ShownOf(e) : e \in calendarOnce}
        /\ \A e1, e2 \in calendar : ShownOf(e1) = ShownOf(e2) => e1.id = e2.id

---------------------------------------------------------------------------
(* Properties of two updateGCal processes on one calendar (SpecConc) *)

BothEnded == pc \in Ended /\ other.pc \in Ended \cup {"none"}

\* the entry the insert call calls[j] put on the calendar
InsertedEntry(j) ==
    EntryOf(FirstNewId + Cardinality({i \in 1..(j - 1) :
                                         calls[i].op = "insert" /\ calls[i].ok}),
            calls[j].resource)

\* a listing taken after calls[j] returned the entry of calls[j]
ListedLater(j) ==
    \E k \in CallIdx : /\ k > j
                        /\ calls[k].op = "list"
                        /\ InsertedEntry(j).end > calls[k].timeMin

\* C14: nothing but a process's own listing guards the calendar: once the
\* processes have ended with every call succeeding, an inserted entry is on
\* the calendar exactly when no listing was taken after its insertion, so
\* two processes that both list before the other inserts leave every kept
\* event on the calendar twice
C14_OnlyListedEntriesAreRemoved ==
    (BothEnded /\ AllCallsOk) =>
        \A j \in CallIdx :
            calls[j].op = "insert" =>
                (InsertedEntry(j) \in calendar <=> ~ListedLater(j))

\* two processes have run to the end on the same kept set, every call
\* succeeded, and an event is on the calendar twice
C14_Witness ==
    /\ pc = "exit0" /\ other.pc = "exit0"
    /\ AllCallsOk
    /\ variant = "sheets"
    /\ uniqueEventsToCreate = other.uniqueEventsToCreate
    /\ \E e1, e2 \in calendar :
           e1.id # e2.id /\ [e1 EXCEPT !.id = 0] = [e2 EXCEPT !.id = 0]

---------------------------------------------------------------------------
(* Properties of beaconSchedule *)

\* the rows of sheet 'schedule' and the events updateGCal builds from them
WrittenRows == RowsOfSheet(scheduleSheet)
EventsFrom(rows) ==
    ParseSchedule("sheets", rows, UTCDate(clock), machineOffset,
                  RuntimesMap(runtimes), SeriesMap(seriesIndex))

\* RENT THE BEACON in any letter case, quoted or padded
IsPlaceholder(s) == LowerCase(Trim(StripQuotes(Trim(s)))) = LowerCase(RentTheBeacon)

\* C15: once beaconSchedule has written the sheet, no row of the schedule
\* and no event built from it has the placeholder title RENT THE BEACON,
\* in whatever letter case, quoting or padding the page showed it
C15_PlaceholderNeverListed ==
    bsPc = "done" =>
        /\ \A i \in 1..Len(WrittenRows) : ~IsPlaceholder(WrittenRows[i].Title)
        /\ \A i \in 1..Len(EventsFrom(WrittenRows)) :
               ~IsPlaceholder(EventsFrom(WrittenRows)[i].summary)

\* the titles sheet 'series' lists, its Title column found by name
SeriesTitles ==
    LET header == IF Len(seriesSheet) > 0 THEN seriesSheet[1] ELSE <<>>
    IN  {TitleOfCell(CellAt(seriesSheet[i], IndexOf(header, HTitle))) :
            i \in 2..Len(seriesSheet)}

\* C16: once beaconSchedule has written the sheet, every row's SeriesTag is
\* empty or a tag of seriesIndex, and it is empty when no line of sheet
\* 'series' has the row's normalized title
C16_SeriesTagNeverDangling ==
    bsPc = "done" =>
        \A i \in 1..Len(WrittenRows) :
            LET row == WrittenRows[i] IN
            /\ row.SeriesTag = <<>> \/ row.SeriesTag \in DOMAIN SeriesMap(seriesIndex)
            /\ (\A t \in SeriesTitles : normalizeTitle(t) # normalizeTitle(row.Title))
                   => row.SeriesTag = <<>>

\* the columns of a sheet in another order: column j of the result is
\* column order[j] of the sheet, header and lines alike
PermuteCols(sheet, order) ==
    [i \in 1..Len(sheet) |-> [j \in 1..Len(order) |-> CellAt(sheet[i], order[j])]]

SeriesOrders == {<<1, 2, 3>>, <<2, 1, 3>>, <<3, 1, 2>>}
ScheduleOrders ==
    {<<1, 2, 3, 4, 5, 6>>, <<2, 1, 3, 4, 5, 6>>, <<6, 5, 4, 3, 2, 1>>}

\* C20: with the columns of sheet 'series' or sheet 'schedule' in another
\* order, beaconSchedule writes the same schedule rows, and updateGCal
\* builds the same events from the schedule written
C20_ColumnsByHeaderName ==
    bsPc = "done" =>
        /\ \A p \in SeriesOrders, q \in ScheduleOrders :
               RowsOfSheet(WrittenSchedule(PermuteCols(scheduleBefore, q),
                                           PermuteCols(seriesSheet, p),
                                           listing, clock))
                   = WrittenRows
        /\ \A q \in ScheduleOrders :
               EventsFrom(RowsOfSheet(PermuteCols(scheduleSheet, q)))
                   = EventsFrom(WrittenRows)

---------------------------------------------------------------------------
(* Properties of beaconSchedule: a failed navigation (SpecSchedule) *)

\* C24: when the navigation to the listing page has failed (navigateWithRetry
\* returned false or threw), sheet 'schedule' holds the lines it held when the
\* run started
C24_NavFailureWritesNothing ==
    bsPc = "navFailed" => scheduleSheet = scheduleBefore

\* the retries ran out on a run that had screenings to write and future rows
\* to remove
C24_Witness ==
    /\ bsPc = "navFailed"
    /\ navStatus = "false"
    /\ Len(gotoLog) = DefaultMaxRetries + 1
    /\ Len(listing) > 0
    /\ setSheetRows(scheduleBefore, FilteredRows(scheduleBefore, UTCDate(clock)))
           # scheduleBefore

---------------------------------------------------------------------------
(* Properties of beaconSchedule: titles listed more than once in sheet     *)
(* 'series' (SpecSchedule)                                                 *)

\* the lines of sheet 'series' whose Title has the normalized title of a cell
SeriesLinesOf(title) ==
    {i \in 2..Len(seriesSheet) :
        NormalizeCell(CellAt(seriesSheet[i], IndexOf(seriesSheet[1], HTitle)))
            = NormalizeCell(title)}

\* the SeriesTag of the last of them, nothing when there is none
LastTagOf(title) ==
    IF SeriesLinesOf(title) = {} THEN NoCell
    ELSE LET last == CHOOSE i \in SeriesLinesOf(title) :
                        \A j \in SeriesLinesOf(title) : j <= i
         IN  CellAt(seriesSheet[last], IndexOf(seriesSheet[1], HSeriesTag))

\* the lines of sheet 'schedule' that this run has written
LinesOfThisRun ==
    {i \in 2..Len(scheduleSheet) : CellAt(scheduleSheet[i], 6) = StampText(clock)}

\* C28: with sheet 'series' in its column order Title, SeriesTag,
\* DateRecorded, every line beaconSchedule has written carries the SeriesTag
\* of the last line of 'series' that has its normalized title, whatever
\* lines with that title, repeated or with another tag, come before it
C28_LastSeriesRowWins ==
    (bsPc = "done" /\ Len(seriesSheet) > 0 /\ seriesSheet[1] = SeriesHeader) =>
        \A i \in LinesOfThisRun :
            CellAt(scheduleSheet[i], 5) = LastTagOf(CellAt(scheduleSheet[i], 1))

\* the run has ended on a 'series' sheet that lists "aB" under z and then
\* twice under t, and has written a line with tag t
C28_Witness ==
    /\ bsPc = "done"
    /\ seriesSheet = RepeatedSeries
    /\ \E i \in LinesOfThisRun :
          /\ SeriesLinesOf(CellAt(scheduleSheet[i], 1)) = {2, 3, 4}
          /\ CellAt(scheduleSheet[i], 5) = Text(<<"t">>)

---------------------------------------------------------------------------
(* Properties of findRuntimes (SpecRuntimes) *)

\* the URLs whose navigation ran out of retries, and those whose page
\* showed a runtime
TimedOutUrls == {i \in 1..Len(frLog) : frLog[i].nav = "false"}
FoundTitles ==
    {frLog[i].title : i \in {k \in 1..Len(frLog) : Truthy(frLog[k].runtime)}}

\* the rows of sheet 'runtimes' as [Title, Runtime] pairs
RuntimeRowsOf(sheet) ==
    LET rows == TitledRows(sheet, HRuntime)
    IN  {<<rows[i].Title, rows[i].Other>> : i \in 1..Len(rows)}

\* C19: when findRuntimes has written the sheet, every URL of urls was
\* visited, a URL whose navigation ran out of retries added no row to the
\* runtimes table, and the count of processed runtimes is the number of
\* titles a runtime was found for, timed-out URLs not among them
C19_TimedOutTargetSkipped ==
    (frPc = "done" /\ Len(urls) > 0) =>
        /\ Len(frLog) = Len(urls)
        /\ \A row \in RuntimeRowsOf(runtimesSheet) \ RuntimeRowsOf(runtimesBefore) :
               row[1] \in FoundTitles
        /\ runtimesAdded = Cardinality(FoundTitles)

---------------------------------------------------------------------------
(* Properties of findRuntimes: the runtimes recorded before (SpecRuntimes) *)

\* C29: when findRuntimes has ended, every [Title, Runtime] row that sheet
\* 'runtimes' held before the run is still in it, and no URL was visited for
\* a title that had a runtime before the run
C29_RecordedRuntimesKept ==
    /\ frPc = "done" =>
          RuntimeRowsOf(runtimesBefore) \subseteq RuntimeRowsOf(runtimesSheet)
    /\ \A i \in 1..Len(frLog) :
          \A row \in RuntimeRowsOf(runtimesBefore) :
             frLog[i].title # TrimCell(row[1])

---------------------------------------------------------------------------
(* Properties of fullUpdate *)

\* C12: in a fullUpdate run, once beaconSchedule could not load the calendar
\* page (retries exhausted, or an error that is no timeout) no calendar
\* list, delete or insert is ever issued
C12_FetchFailureAborts ==
    (fuPc # "idle" /\ bsPc = "navFailed") => calls = <<>>

---------------------------------------------------------------------------
(* Properties of navigateWithRetry (SpecNav) *)

NavDone == navStatus \in {"true", "false", "thrown"}
TimedOut(o) ==
    ~o.ok /\ o.isError /\ o.message = "Navigation timeout of 60000 ms exceeded"
AllTimedOut == \A i \in 1..Len(gotoLog) : TimedOut(gotoLog[i])

\* C3: when every goto attempt fails with a navigation timeout, the call
\* makes exactly maxRetries + 1 attempts and then returns false; it does not
\* throw.
C3_RetryExhaustion ==
    AllTimedOut =>
        /\ navStatus \in {"running", "false"}
        /\ navStatus = "running" => Len(gotoLog) <= maxRetries
        /\ navStatus = "false" => Len(gotoLog) = maxRetries + 1

\* C3, its case: the default maxRetries = 2, three timeouts, false returned.
C3_Witness ==
    /\ maxRetries = 2 /\ navStatus = "false"
    /\ Len(gotoLog) = 3 /\ AllTimedOut

\* C4: a goto failure that is no navigation timeout is thrown to the caller
\* as it is and is the last attempt made, on whichever attempt it happens.
C4_NonTimeoutThrownAtOnce ==
    \A i \in 1..Len(gotoLog) :
        (~gotoLog[i].ok /\ ~TimedOut(gotoLog[i])) =>
            /\ i = Len(gotoLog)
            /\ navStatus = "thrown"
            /\ navThrown = gotoLog[i]

\* C4, its case: an error that is no timeout, on an attempt that follows
\* two timeouts.
C4_Witness ==
    /\ navStatus = "thrown" /\ Len(gotoLog) = 3
    /\ TimedOut(gotoLog[1]) /\ TimedOut(gotoLog[2])
    /\ navThrown.isError /\ navThrown.message = "net::ERR_NAME_NOT_RESOLVED"

\* C30: whatever the goto attempts do, the call makes at most maxRetries + 1
\* of them, none after one that succeeded, it has returned true exactly when
\* one succeeded, and it ends: it returns or throws
C30_AlwaysTerminates ==
    /\ [](/\ Len(gotoLog) <= maxRetries + 1
          /\ \A i \in 1..Len(gotoLog) : gotoLog[i].ok => i = Len(gotoLog)
          /\ navStatus = "true" <=> \E i \in 1..Len(gotoLog) : gotoLog[i].ok)
    /\ <>NavDone

\* C30, its case: two timeouts, then the last attempt allowed succeeds
C30_Witness ==
    /\ maxRetries = 2 /\ navStatus = "true" /\ Len(gotoLog) = 3
    /\ TimedOut(gotoLog[1]) /\ TimedOut(gotoLog[2]) /\ gotoLog[3].ok

---------------------------------------------------------------------------
(* Properties of deduplicateRows (SpecDedup) *)

DedupKey(row) == KeyOf(dedupKeyFn, row)
DedupKeys == {DedupKey(dedupRows[i]) : i \in 1..Len(dedupRows)}
\* index of the first row of the input that has the key
FirstIndex(key) ==
    CHOOSE i \in 1..Len(dedupRows) :
        /\ DedupKey(dedupRows[i]) = key
        /\ \A j \in 1..(i - 1) : DedupKey(dedupRows[j]) # key

\* C5: deduplicateRows returns one row per distinct key of its input, each
\* the first row of the input with that key, in the order of the input.
C5_DedupCorrect ==
    dedupStatus = "returned" =>
        /\ Len(dedupResult) = Cardinality(DedupKeys)
        /\ \A j \in 1..Len(dedupResult) :
              /\ DedupKey(dedupResult[j]) \in DedupKeys
              /\ dedupResult[j] = dedupRows[FirstIndex(DedupKey(dedupResult[j]))]
        /\ \A a, b \in 1..Len(dedupResult) :
              a < b => FirstIndex(DedupKey(dedupResult[a]))
                           < FirstIndex(DedupKey(dedupResult[b]))

\* C5, its case: three rows with two (title, date, time) keys, the third a
\* different row with the key of the first; two rows are returned.
C5_Witness ==
    /\ dedupStatus = "returned" /\ dedupKeyFn = "title|date|time"
    /\ Len(dedupRows) = 3 /\ Len(dedupResult) = 2
    /\ dedupRows[1] # dedupRows[3]
    /\ DedupKey(dedupRows[1]) = DedupKey(dedupRows[3])
    /\ DedupKey(dedupRows[2]) # DedupKey(dedupRows[1])
    /\ dedupResult = <<dedupRows[1], dedupRows[2]>>

---------------------------------------------------------------------------
(* Properties of fullUpdate's sequencing (SpecFull) *)

\* the four steps in the order of the pipeline
StepOrder == <<"beaconSeries.js", "beaconSchedule.js", "findRuntimes.js",
               "updateGCal.js">>

StepIndex(script) == CHOOSE i \in 1..Len(StepOrder) : StepOrder[i] = script

\* the step whose script has been started and has not ended yet, 0 if none
RunningStep ==
    IF Len(started) > Len(exitCodes) THEN StepIndex(started[Len(started)]) ELSE 0

---------------------------------------------------------------------------
(* Properties of normalizeTitle (SpecNormalize) *)

\* C21: normalizeTitle is idempotent and quote-insensitive: normalizing its
\* result again gives the same result, and the title wrapped in a pair of
\* double quotes has the same result as the title itself
C21_NormalizeIdempotent ==
    normStatus = "returned" =>
        /\ normalizeTitle(normResult) = normResult
        /\ normalizeTitle(Quoted(normTitle)) = normResult

====
